---------------------------- MODULE Spec2Model ----------------------------
(***************************************************************************)
(* A model of the merge/split engine of file-merger-splitter:              *)
(*   src/config.py   MERGE_FORMATS, the three built-in delimiter formats   *)
(*   src/workers.py  MergerWorker.run, SplitterWorker.run and _write_file  *)
(*   src/ui_main_window.py  cancel_operation (the caller's Cancel)         *)
(*                                                                         *)
(* Text is modelled by TLA+ strings, character by character (Len, \o and   *)
(* SubSeq on strings).  Paths follow pathlib's POSIX flavour: "/" is the   *)
(* only separator and a backslash is an ordinary character of a name.      *)
(* The backquote of the Markdown formats cannot be written inside a TLA+   *)
(* string, so the model writes the character as "~" (BQ); no file name of  *)
(* the model contains a "~" of its own.                                    *)
(***************************************************************************)
EXTENDS Integers, Sequences, FiniteSets, TLC

(***************************************************************************)
(* Strings                                                                 *)
(***************************************************************************)
BQ == "~"


CharAt(s, i) == SubSeq(s, i, i)

StartsWith(s, p) == Len(p) <= Len(s) /\ SubSeq(s, 1, Len(p)) = p

EndsWith(s, p) == Len(p) <= Len(s) /\ SubSeq(s, Len(s) - Len(p) + 1, Len(s)) = p

\* `p in s` for strings.
Contains(s, p) == \E i \in 1..(Len(s) - Len(p) + 1) : SubSeq(s, i, i + Len(p) - 1) = p

\* str.strip(chars): drop the leading and trailing characters that are in chars.
StripChars(s, chars) ==
    LET keep == {i \in 1..Len(s) : CharAt(s, i) \notin chars}
    IN  IF keep = {} THEN ""
        ELSE LET lo == CHOOSE i \in keep : \A j \in keep : i <= j
                 hi == CHOOSE i \in keep : \A j \in keep : j <= i
             IN  SubSeq(s, lo, hi)

Strip(s) == StripChars(s, {" ", "\t", "\n", "\r", "\f"})

\* str.replace(a, b) for a single character a.
RECURSIVE ReplaceChar(_, _, _)
ReplaceChar(s, a, b) ==
    IF s = "" THEN ""
    ELSE (IF CharAt(s, 1) = a THEN b ELSE CharAt(s, 1))
         \o ReplaceChar(SubSeq(s, 2, Len(s)), a, b)

\* "".join(list)
RECURSIVE Concat(_)
Concat(ss) == IF ss = <<>> THEN "" ELSE Head(ss) \o Concat(Tail(ss))

\* sep.join(list)
RECURSIVE JoinWith(_, _)
JoinWith(ss, sep) ==
    IF ss = <<>> THEN ""
    ELSE IF Len(ss) = 1 THEN Head(ss)
    ELSE Head(ss) \o sep \o JoinWith(Tail(ss), sep)

\* str.split(sep) for a single character sep.
RECURSIVE SplitOn(_, _)
SplitOn(s, sep) ==
    LET hits == {i \in 1..Len(s) : CharAt(s, i) = sep}
    IN  IF hits = {} THEN <<s>>
        ELSE LET k == CHOOSE i \in hits : \A j \in hits : i <= j
             IN  <<SubSeq(s, 1, k - 1)>> \o SplitOn(SubSeq(s, k + 1, Len(s)), sep)

\* str.splitlines(keepends=True): the line boundaries are \n, \r, \r\n and \f
\* (of the boundaries Python knows, the ones the model's alphabet has).
RECURSIVE SplitLines(_)
SplitLines(s) ==
    LET hits == {i \in 1..Len(s) : CharAt(s, i) \in {"\n", "\r", "\f"}}
    IN  IF s = "" THEN <<>>
        ELSE IF hits = {} THEN <<s>>
        ELSE LET k == CHOOSE i \in hits : \A j \in hits : i <= j
                 e == IF CharAt(s, k) = "\r" /\ k < Len(s) /\ CharAt(s, k + 1) = "\n"
                      THEN k + 1 ELSE k
             IN  <<SubSeq(s, 1, e)>> \o SplitLines(SubSeq(s, e + 1, Len(s)))

(***************************************************************************)
(* The format registry (config.py)                                         *)
(***************************************************************************)
TREE_START_DELIMITER == "--- START FILE HIERARCHY ---"
TREE_END_DELIMITER == "--- END FILE HIERARCHY ---"

FormatNames == {"Default", "Markdown", "Markdown_Fenced"}

\* The merger's half of each format: the templates it writes.
MERGE_FORMATS ==
    [f \in FormatNames |->
        CASE f = "Default" ->
               [name |-> "Default",
                start |-> "--- START FILE: {filepath} ---",
                end |-> "--- END FILE: {filepath} ---",
                file_separator |-> "\n\n",
                content_prefix |-> "",
                content_suffix |-> "",
                skip_line_after_start |-> FALSE]
          [] f = "Markdown" ->
               [name |-> "Markdown",
                start |-> "File: " \o BQ \o "{filepath}" \o BQ,
                end |-> BQ \o BQ \o BQ,
                file_separator |-> "\n\n",
                content_prefix |-> BQ \o BQ \o BQ \o "\n",
                content_suffix |-> "",
                skip_line_after_start |-> TRUE]
          [] f = "Markdown_Fenced" ->
               [name |-> "Markdown (Fenced)",
                start |-> BQ \o BQ \o BQ \o "{filepath}",
                end |-> BQ \o BQ \o BQ,
                file_separator |-> "\n\n",
                content_prefix |-> "",
                content_suffix |-> "",
                skip_line_after_start |-> FALSE]]

\* template.format(filepath=p): the placeholder replaced by p, a template
\* without the placeholder returned as it is.
FormatFilepath(template, p) ==
    LET ph == "{filepath}"
        at == {i \in 1..(Len(template) - Len(ph) + 1) :
                  SubSeq(template, i, i + Len(ph) - 1) = ph}
    IN  IF at = {} THEN template
        ELSE LET k == CHOOSE i \in at : \A j \in at : i <= j
             IN  SubSeq(template, 1, k - 1) \o p
                 \o SubSeq(template, k + Len(ph), Len(template))

NoMatch == [matched |-> FALSE, group1 |-> ""]

\* re.match of ^prefix(.*?)suffix$ : the shortest capture, without a line
\* feed in it, after which the suffix ends the string.
MatchLazy(prefix, suffix, s) ==
    LET ks == {k \in 0..(Len(s) - Len(prefix) - Len(suffix)) :
                  /\ SubSeq(s, Len(prefix) + k + 1, Len(s)) = suffix
                  /\ ~Contains(SubSeq(s, Len(prefix) + 1, Len(prefix) + k), "\n")}
    IN  IF ~StartsWith(s, prefix) \/ ks = {} THEN NoMatch
        ELSE LET k == CHOOSE i \in ks : \A j \in ks : i <= j
             IN  [matched |-> TRUE,
                  group1 |-> SubSeq(s, Len(prefix) + 1, Len(prefix) + k)]

\* re.match of ^```(?!``)(.*)$ : three backquotes not followed by two more,
\* then the rest of the string captured.
MatchFence(s) ==
    LET fence == BQ \o BQ \o BQ
        rest == SubSeq(s, Len(fence) + 1, Len(s))
    IN  IF /\ StartsWith(s, fence)
           /\ ~StartsWith(rest, BQ \o BQ)
           /\ ~Contains(rest, "\n")
        THEN [matched |-> TRUE, group1 |-> rest]
        ELSE NoMatch

\* start_regex.match(line_stripped) for the format's start_regex_pattern.
start_regex_match(f, s) ==
    CASE f = "Default" -> MatchLazy("--- START FILE: ", " ---", s)
      [] f = "Markdown" -> MatchLazy("File: " \o BQ, BQ, s)
      [] f = "Markdown_Fenced" -> MatchFence(s)

\* The format's get_end_delimiter lambda.
get_end_delimiter(f, fp) ==
    CASE f = "Default" -> "--- END FILE: " \o fp \o " ---"
      [] f = "Markdown" -> BQ \o BQ \o BQ
      [] f = "Markdown_Fenced" -> BQ \o BQ \o BQ

(***************************************************************************)
(* Paths (pathlib, POSIX flavour) and the file system                      *)
(*                                                                         *)
(* A path is the sequence of its parts below the root; every path of the   *)
(* model is absolute, as resolve() makes them.  The file system has        *)
(* directories and regular files and no symbolic links.                    *)
(***************************************************************************)
\* The right part of a path: the names pathlib keeps of a string ("" and "."
\* are dropped, ".." is kept).
RECURSIVE DropDots(_)
DropDots(names) ==
    IF names = <<>> THEN <<>>
    ELSE IF Head(names) \in {"", "."} THEN DropDots(Tail(names))
    ELSE <<Head(names)>> \o DropDots(Tail(names))

PathParts(str) == DropDots(SplitOn(str, "/"))

\* A check that takes no path for absolute.
never_absolute(str) == FALSE

\* PurePath(str).is_absolute()
is_absolute(str) == StartsWith(str, "/")

\* base.joinpath(str): an absolute str replaces the base.
joinpath(base, str) == IF is_absolute(str) THEN PathParts(str) ELSE base \o PathParts(str)

\* Path.resolve() of an absolute path: ".." steps to the parent, and the
\* parent of the root is the root.
RECURSIVE ResolveFrom(_, _)
ResolveFrom(done, todo) ==
    IF todo = <<>> THEN done
    ELSE IF Head(todo) = ".."
         THEN ResolveFrom(IF done = <<>> THEN <<>> ELSE SubSeq(done, 1, Len(done) - 1),
                          Tail(todo))
         ELSE ResolveFrom(Append(done, Head(todo)), Tail(todo))

resolve(path) == ResolveFrom(<<>>, path)

parent(path) == IF path = <<>> THEN <<>> ELSE SubSeq(path, 1, Len(path) - 1)

IsPrefix(a, b) == Len(a) <= Len(b) /\ SubSeq(b, 1, Len(a)) = a


\* relative_path.as_posix()
as_posix(parts) == IF parts = <<>> THEN "." ELSE JoinWith(parts, "/")

is_file(fs, path) == path \in DOMAIN fs.files

is_dir(fs, path) == path \in fs.dirs

Ancestors(path) == {SubSeq(path, 1, k) : k \in 0..Len(path)}

\* path.mkdir(parents=True, exist_ok=True): fails when the path or one of its
\* ancestors is a regular file.
mkdir_fails(fs, path) == \E a \in Ancestors(path) : is_file(fs, a)

mkdir(fs, path) == [fs EXCEPT !.dirs = @ \cup Ancestors(path)]

\* open(path, "w"/"wb"): fails when the path is a directory or its parent is
\* no directory.
open_fails(fs, path) == is_dir(fs, path) \/ ~is_dir(fs, parent(path))

\* The file created or truncated, and content written to it.
open_write(fs, path, content) ==
    [fs EXCEPT !.files = [q \in (DOMAIN @) \cup {path} |->
                              IF q = path THEN content ELSE @[q]]]

\* An unlink that removes nothing.
keep_file(fs, path) == fs

unlink(fs, path) ==
    [fs EXCEPT !.files = [q \in (DOMAIN @) \ {path} |-> @[q]]]

(***************************************************************************)
(* SplitterWorker._write_file                                              *)
(***************************************************************************)
\* Lines 786-790: backslashes to slashes, then the leading and trailing
\* characters among '.', '/' and ' ' stripped.
clean_relative_path(relative_path_str) ==
    StripChars(ReplaceChar(relative_path_str, "\\", "/"), {".", "/", " "})

\* A containment check that passes every target.
always_within(output_dir_resolved, target_path_resolved) == TRUE

\* Lines 825-839: the resolved target is the resolved output directory or
\* has it among its parents.
is_within_output_dir(output_dir_resolved, target_path_resolved) ==
    \/ output_dir_resolved = target_path_resolved
    \/ /\ Len(output_dir_resolved) < Len(target_path_resolved)
       /\ IsPrefix(output_dir_resolved, target_path_resolved)

\* The path _write_file writes relative_path_str to, when it writes.
target_path_of(output_dir, relative_path_str) ==
    resolve(joinpath(output_dir, clean_relative_path(relative_path_str)))

\* _write_file(relative_path_str, content) on the file system fs: what it
\* returns, the file system it leaves and the line it logs.  A missing output
\* directory raises FileNotFoundError, which is an OSError and so is caught
\* by the first handler (line 813): the handler of line 817, which would
\* emit the error signal and clear is_running, is never entered.
WriteFile(fs, output_dir, relative_path_str, content) ==
    LET cleaned_relative_path == clean_relative_path(relative_path_str)
        output_dir_resolved == resolve(output_dir)
        target_path_resolved == target_path_of(output_dir, relative_path_str)
        made == mkdir(fs, parent(target_path_resolved))
    IN  IF relative_path_str = ""
        THEN [ok |-> FALSE, fs |-> fs, log |-> "Error: empty relative path"]
        ELSE IF cleaned_relative_path = ""
        THEN [ok |-> FALSE, fs |-> fs, log |-> "Error: path empty after cleaning"]
        ELSE IF ~is_dir(fs, output_dir)
        THEN [ok |-> FALSE, fs |-> fs, log |-> "Error: Invalid path generated"]
        ELSE IF ~is_within_output_dir(output_dir_resolved, target_path_resolved)
        THEN [ok |-> FALSE, fs |-> fs, log |-> "Error: Security risk! outside output directory"]
        ELSE IF mkdir_fails(fs, parent(target_path_resolved))
        THEN [ok |-> FALSE, fs |-> fs, log |-> "Error writing file (OS Error)"]
        ELSE IF open_fails(made, target_path_resolved)
        THEN [ok |-> FALSE, fs |-> made, log |-> "Error writing file (OS Error)"]
        ELSE [ok |-> TRUE, fs |-> open_write(made, target_path_resolved, content),
              log |-> ""]

(***************************************************************************)
(* The block MergerWorker.run writes for one file (lines 366-413)          *)
(***************************************************************************)
start_delimiter(f, relative_path_str) ==
    FormatFilepath(MERGE_FORMATS[f].start, relative_path_str)

end_delimiter(f, relative_path_str) ==
    FormatFilepath(MERGE_FORMATS[f].end, relative_path_str)

\* A line feed after every content.
always_newline(file_content) == "\n"

\* Line 402: one line feed after content that is not empty and does not end
\* in one.
content_newline(file_content) ==
    IF file_content # "" /\ ~EndsWith(file_content, "\n") THEN "\n" ELSE ""

file_block(f, relative_path_str, file_content) ==
    start_delimiter(f, relative_path_str) \o "\n"
    \o MERGE_FORMATS[f].content_prefix
    \o file_content \o content_newline(file_content)
    \o MERGE_FORMATS[f].content_suffix
    \o end_delimiter(f, relative_path_str) \o "\n"

(***************************************************************************)
(* Ordering of strings, sorted() and str.lower                             *)
(***************************************************************************)
\* The printable ASCII characters from the space (32) on, in code order,
\* with BQ in the place of the backquote (96).
ASCII == " !\"#$%&'()*+,-./0123456789:;<=>?@ABCDEFGHIJKLMNOPQRSTUVWXYZ[\\]^_~abcdefghijklmnopqrstuvwxyz{|}"

\* ord(c)
Code(c) ==
    CASE c = "\t" -> 9
      [] c = "\n" -> 10
      [] c = "\f" -> 12
      [] c = "\r" -> 13
      [] OTHER -> 31 + (CHOOSE i \in 1..Len(ASCII) : CharAt(ASCII, i) = c)

\* a < b for strings: by the first character that differs, a proper prefix
\* first.
RECURSIVE StrLess(_, _)
StrLess(a, b) ==
    IF b = "" THEN FALSE
    ELSE IF a = "" THEN TRUE
    ELSE IF CharAt(a, 1) # CharAt(b, 1) THEN Code(CharAt(a, 1)) < Code(CharAt(b, 1))
    ELSE StrLess(SubSeq(a, 2, Len(a)), SubSeq(b, 2, Len(b)))

\* str.lower
RECURSIVE Lower(_)
Lower(s) ==
    IF s = "" THEN ""
    ELSE LET c == CharAt(s, 1)
         IN  (IF Code(c) >= 65 /\ Code(c) <= 90 THEN CharAt(ASCII, Code(c) + 32 - 31) ELSE c)
             \o Lower(SubSeq(s, 2, Len(s)))

\* files_to_process = sorted(files_discovered_in_scan, key=lambda x: x[1].as_posix()):
\* a stable sort, records with equal keys keep their order.
sort_key(record) == as_posix(record.relative_path)

\* An insertion that compares the keys without regard to case.
RECURSIVE insert_caseless(_, _)
insert_caseless(sorted, record) ==
    IF sorted = <<>> THEN <<record>>
    ELSE IF StrLess(Lower(sort_key(record)), Lower(sort_key(Head(sorted))))
    THEN <<record>> \o sorted
    ELSE <<Head(sorted)>> \o insert_caseless(Tail(sorted), record)

RECURSIVE InsertSorted(_, _)
InsertSorted(sorted, record) ==
    IF sorted = <<>> THEN <<record>>
    ELSE IF StrLess(sort_key(record), sort_key(Head(sorted)))
    THEN <<record>> \o sorted
    ELSE <<Head(sorted)>> \o InsertSorted(Tail(sorted), record)

RECURSIVE sorted_files(_)
sorted_files(files) ==
    IF files = <<>> THEN <<>>
    ELSE InsertSorted(sorted_files(SubSeq(files, 1, Len(files) - 1)), files[Len(files)])

\* sorted(names, key=str.lower), stable.
RECURSIVE InsertLower(_, _)
InsertLower(sorted, name) ==
    IF sorted = <<>> THEN <<name>>
    ELSE IF StrLess(Lower(name), Lower(Head(sorted)))
    THEN <<name>> \o sorted
    ELSE <<Head(sorted)>> \o InsertLower(Tail(sorted), name)

RECURSIVE sorted_lower(_)
sorted_lower(names) ==
    IF names = <<>> THEN <<>>
    ELSE InsertLower(sorted_lower(SubSeq(names, 1, Len(names) - 1)), names[Len(names)])

\* A sequence without the later copies of its elements.
RECURSIVE Distinct(_)
Distinct(seq) ==
    IF seq = <<>> THEN <<>>
    ELSE LET front == Distinct(SubSeq(seq, 1, Len(seq) - 1))
             last == seq[Len(seq)]
         IN  IF \E k \in 1..Len(front) : front[k] = last THEN front
             ELSE Append(front, last)

(***************************************************************************)
(* MergerWorker._generate_hierarchy_tree_string                            *)
(*                                                                         *)
(* The box-drawing characters of the tree are written with ASCII stand-ins *)
(* ("+" for U+251C, "*" for U+2514, "=" for U+2500, "|" for U+2502), which *)
(* no file name of the model contains; each is three bytes in UTF-8.       *)
(***************************************************************************)
T_BRANCH == "+== "
L_BRANCH == "*== "

\* len(s.encode('utf-8'))
ByteLen(s) ==
    Len(s) + 2 * Cardinality({i \in 1..Len(s) : CharAt(s, i) \in {"+", "*", "=", "|"}})

\* Lines 82-94: the relative paths of the list, each once, those without
\* parts left out.
tree_paths(files_to_process) ==
    SelectSeq(Distinct([k \in 1..Len(files_to_process) |->
                            files_to_process[k].relative_path]),
              LAMBDA parts : parts # <<>>)


\* Lines 63-77, add_path_to_dict: the keys a directory node holds, in
\* insertion order: the sub-directories, or the names of its "_files" list.
\* A path of one part adds nothing below its root key.
RECURSIVE child_names(_, _, _)
child_names(paths, prefix, want_dirs) ==
    IF paths = <<>> THEN <<>>
    ELSE LET path == Head(paths)
             below == IsPrefix(prefix, path) /\
                      (IF want_dirs THEN Len(path) > Len(prefix) + 1
                                    ELSE Len(path) = Len(prefix) + 1)
         IN  Distinct((IF below THEN <<path[Len(prefix) + 1]>> ELSE <<>>)
                      \o child_names(Tail(paths), prefix, want_dirs))

\* Lines 120-142, format_node: the line of a directory and the lines of what
\* it holds, directories before files, each sorted by its lower-case name.
RECURSIVE format_node(_, _, _, _), format_items(_, _, _, _, _, _)
format_node(paths, prefix, indent, is_last_node) ==
    LET name == prefix[Len(prefix)]
        child_indent == indent \o (IF is_last_node THEN "    " ELSE "|   ")
        dirs == sorted_lower(child_names(paths, prefix, TRUE))
        files == sorted_lower(child_names(paths, prefix, FALSE))
    IN  <<indent \o (IF is_last_node THEN L_BRANCH ELSE T_BRANCH) \o name \o "/">>
        \o format_items(paths, prefix, dirs, dirs \o files, 1, child_indent)

format_items(paths, prefix, dirs, items, i, child_indent) ==
    IF i > Len(items) THEN <<>>
    ELSE LET item_name == items[i]
             is_last_item == (i = Len(items))
         IN  (IF \E k \in 1..Len(dirs) : dirs[k] = item_name
              THEN format_node(paths, Append(prefix, item_name), child_indent, is_last_item)
              ELSE <<child_indent \o (IF is_last_item THEN L_BRANCH ELSE T_BRANCH)
                     \o item_name>>)
             \o format_items(paths, prefix, dirs, items, i + 1, child_indent)

\* Lines 145-150: the root keys, sorted by lower-case name, each formatted.
RECURSIVE format_roots(_, _, _)
format_roots(paths, keys, i) ==
    IF i > Len(keys) THEN <<>>
    ELSE format_node(paths, <<keys[i]>>, "", i = Len(keys))
         \o format_roots(paths, keys, i + 1)

generate_hierarchy_tree_string(files_to_process) ==
    LET paths == tree_paths(files_to_process)
        output_lines == format_roots(paths, sorted_lower(Distinct([k \in 1..Len(paths) |-> paths[k][1]])), 1)
    IN  IF files_to_process = <<>> THEN ""
        ELSE TREE_START_DELIMITER \o "\n" \o JoinWith(output_lines, "\n") \o "\n"
             \o TREE_END_DELIMITER \o "\n"

(***************************************************************************)
(* State                                                                   *)
(***************************************************************************)
VARIABLES
    scenario,        \* the inputs of the run, as drawn by Init
    worker,          \* "merger" or "splitter": the worker the caller started
    pc,              \* the worker's position in run()
    is_running,      \* the worker's flag, cleared by stop()
    observed,        \* the worker has seen is_running cleared at a polling point
    signals,         \* the signals emitted so far, in order
    fs,              \* the file system
    mw,              \* MergerWorker: its attributes and the locals of run()
    sw,              \* SplitterWorker: its attributes and the locals of run()
    ui,              \* the window: its worker thread and the workers it made
    dialog           \* FolderSelectionDialog: its item model and its selection

vars == <<scenario, worker, pc, is_running, observed, signals, fs, mw, sw, ui,
          dialog>>


\* WorkerSignals: progress(int), log(str), finished(bool, str), error(str).
Progress(n) == [sig |-> "progress", value |-> n, success |-> FALSE, message |-> ""]
Log(msg) == [sig |-> "log", value |-> 0, success |-> FALSE, message |-> msg]
Error(msg) == [sig |-> "error", value |-> 0, success |-> FALSE, message |-> msg]
Finished(ok, msg) == [sig |-> "finished", value |-> 0, success |-> ok, message |-> msg]

Min(a, b) == IF a <= b THEN a ELSE b

\* The share that is left rather than the share that is done.
percent_left(a, b) == 100 - ((a * 100) \div b)

\* int((a / b) * 100) in floating point: the quotient rounded down, but one
\* less where the quotient is exactly 29, 57 or 58 (a / b then rounds to a
\* double just below the hundredth).
int_percent(a, b) ==
    LET q == (a * 100) \div b
    IN  IF (a * 100) % b = 0 /\ q \in {29, 57, 58} THEN q - 1 ELSE q

\* min(int((processed_size / total_size) * 100), 100)
progress_percent(processed_size, total_size) ==
    Min(int_percent(processed_size, total_size), 100)

\* The places of the model's file system.
OUTPUT_DIR == <<"w", "o">>
MERGED_FILE == <<"w", "in.txt">>

(***************************************************************************)
(* SplitterWorker.run                                                      *)
(***************************************************************************)
SPLIT_CANCELLED == "Split cancelled."
\* Line 745: the message of a successful split, with the count of the files.
split_successful_message(file_count) ==
    "Split successful!" \o " " \o ToString(file_count) \o " files created"
SPLIT_NO_BLOCKS == "Split finished, but no valid file blocks were found or extracted."
SPLIT_NOT_FOUND == "Split failed: Input merged file not found"
SPLIT_FORMAT_ERROR == "Split failed: Format definition error"
WARN_NO_END == "Warning: Merged file ended before finding END delimiter. Saving remaining content."
WARN_NOT_REMOVED == "Warning: Could not remove partially created file"

\* Lines 515-523: the bytes up to and including the first line feed.
ReadLine(bytes) ==
    LET hits == {i \in 1..Len(bytes) : CharAt(bytes, i) = "\n"}
    IN  IF hits = {} THEN bytes
        ELSE SubSeq(bytes, 1, CHOOSE i \in hits : \A j \in hits : i <= j)

\* Lines 576-577 and 595-596: progress is emitted only when the artifact is
\* not empty.
progress_if_sized(processed_size, total_size) ==
    IF total_size > 0 THEN <<Progress(progress_percent(processed_size, total_size))>>
    ELSE <<>>

\* A reader left behind the first line.
not_rewound(bytes, first_line_bytes) ==
    SubSeq(bytes, Len(first_line_bytes) + 1, Len(bytes))

\* Line 591, infile_b.seek(0): what is left to read is the whole artifact
\* again.
seek_start(bytes, first_line_bytes) == bytes

\* A SplitterWorker as __init__ leaves it; the locals of run() not yet set.
\* lacks names the key format_details does not have ("" when it has all).
SplitterWorker(merged_file, output_dir, f) ==
    [merged_file |-> merged_file, output_dir |-> output_dir, format |-> f,
     lacks |-> "",
     total_size |-> 0, processed_size |-> 0, file_count |-> 0,
     created_file_paths |-> {}, rest |-> "", lines |-> <<>>, idx |-> 1,
     in_file_block |-> FALSE, just_started_block |-> FALSE,
     current_file_path_relative |-> "", current_file_content_lines |-> <<>>]

\* Lines 480-540 and 588-596: the checks on the descriptor and the artifact,
\* and the first line of the artifact compared with the tree's start
\* sentinel.  Line 482 reads format_details['name'] before the try
\* statement: without the key the KeyError leaves run(), nothing catches it
\* and nothing more is emitted.  The KeyError of lines 488-490 is turned into
\* a ValueError, which line 760 handles.
S_Start ==
    /\ worker = "splitter" /\ pc = "start"
    /\ LET head == <<Log("Starting split process"), Progress(0)>>
       IN  IF sw.lacks = "name"
           THEN /\ signals' = signals \o <<Log("Starting split process")>>
                /\ pc' = "raised"
                /\ UNCHANGED sw
           ELSE IF sw.lacks \in {"start_regex_pattern", "get_end_delimiter"}
           THEN /\ signals' = signals \o head \o
                        <<Log("Error: Format definition error"),
                          Error("Format definition error"),
                          Finished(FALSE, SPLIT_FORMAT_ERROR)>>
                /\ pc' = "finally"
                /\ UNCHANGED sw
           ELSE IF ~is_file(fs, sw.merged_file)
           THEN /\ signals' = signals \o head \o
                        <<Log("Error: Input merged file not found"),
                          Error("Input merged file not found"),
                          Finished(FALSE, SPLIT_NOT_FOUND)>>
                /\ pc' = "finally"
                /\ UNCHANGED sw
           ELSE LET bytes == fs.files[sw.merged_file]
                    first_line_bytes == ReadLine(bytes)
                    total_size == ByteLen(bytes)
                IN  IF Strip(first_line_bytes) = TREE_START_DELIMITER
                    THEN /\ sw' = [sw EXCEPT
                                     !.total_size = total_size,
                                     !.processed_size = ByteLen(first_line_bytes),
                                     !.rest = SubSeq(bytes, Len(first_line_bytes) + 1, Len(bytes))]
                         /\ signals' = signals \o head \o <<Log("Found tree start. Skipping tree section...")>>
                         /\ pc' = "tree"
                    ELSE /\ sw' = [sw EXCEPT
                                     !.total_size = total_size,
                                     !.processed_size = 0,
                                     !.rest = seek_start(bytes, first_line_bytes)]
                         /\ signals' = signals \o head
                                \o <<Log("No hierarchy tree section found at the beginning.")>>
                                \o progress_if_sized(0, total_size)
                         /\ pc' = "rest"
    /\ UNCHANGED <<dialog, scenario, ui, worker, is_running, observed, fs, mw>>

\* Lines 544-596: one turn of the loop that skips the tree, and what follows
\* the loop when this turn ends it.
S_TreeSkip ==
    /\ worker = "splitter" /\ pc = "tree"
    /\ IF ~is_running
       THEN /\ signals' = signals \o <<Log("Split cancelled during tree skipping."),
                                       Finished(FALSE, SPLIT_CANCELLED)>>
            /\ pc' = "finally"
            /\ observed' = TRUE
            /\ UNCHANGED sw
       ELSE LET line_bytes == ReadLine(sw.rest)
                processed_size == sw.processed_size + ByteLen(line_bytes)
            IN  /\ observed' = observed
                /\ IF line_bytes = ""
                   THEN /\ signals' = signals \o
                                <<Log("Warning: Reached end of file while skipping tree."),
                                  Log("Warning: Tree section might be incomplete or end delimiter not found.")>>
                                \o progress_if_sized(sw.processed_size, sw.total_size)
                        /\ pc' = "rest"
                        /\ UNCHANGED sw
                   ELSE /\ sw' = [sw EXCEPT
                                    !.processed_size = processed_size,
                                    !.rest = SubSeq(sw.rest, Len(line_bytes) + 1, Len(sw.rest))]
                        /\ IF Strip(line_bytes) = TREE_END_DELIMITER
                           THEN /\ signals' = signals \o <<Log("Found tree end.")>>
                                       \o progress_if_sized(processed_size, sw.total_size)
                                       \o progress_if_sized(processed_size, sw.total_size)
                                /\ pc' = "rest"
                           ELSE /\ signals' = signals
                                /\ pc' = "tree"
    /\ UNCHANGED <<dialog, scenario, ui, worker, is_running, fs, mw>>

\* Lines 600-630: the rest of the artifact read, decoded and cut into lines.
S_ReadRest ==
    /\ worker = "splitter" /\ pc = "rest"
    /\ IF ~is_running
       THEN /\ signals' = signals \o <<Log("Split cancelled immediately after reading remaining file."),
                                       Finished(FALSE, SPLIT_CANCELLED)>>
            /\ pc' = "finally"
            /\ observed' = TRUE
            /\ UNCHANGED sw
       ELSE LET lines == SplitLines(sw.rest)
            IN  /\ sw' = [sw EXCEPT !.rest = "", !.lines = lines, !.idx = 1,
                                    !.in_file_block = FALSE,
                                    !.just_started_block = FALSE,
                                    !.current_file_path_relative = "",
                                    !.current_file_content_lines = <<>>]
                /\ pc' = IF lines = <<>> THEN "after_loop" ELSE "lines"
                /\ UNCHANGED <<signals, observed>>
    /\ UNCHANGED <<dialog, scenario, ui, worker, is_running, fs, mw>>

\* Lines 649-682: a line read outside a block.  The captured path is
\* rejected when it is empty or absolute; one with a parent step in it is
\* only logged.
outside_block(w, line_stripped) ==
    LET start_match == start_regex_match(w.format, line_stripped)
        potential_relative_path == Strip(start_match.group1)
        normalized_path_check == ReplaceChar(potential_relative_path, "\\", "/")
    IN  IF ~start_match.matched
        THEN [sw |-> w, emits |-> <<>>]
        ELSE IF potential_relative_path = ""
        THEN [sw |-> w, emits |-> <<Log("Warning: Empty filepath captured by start regex. Skipping block.")>>]
        ELSE IF is_absolute(potential_relative_path)
        THEN [sw |-> w, emits |-> <<Log("Error: Security risk! Absolute path found in delimiter. Skipping block.")>>]
        ELSE [sw |-> [w EXCEPT !.current_file_path_relative = potential_relative_path,
                               !.current_file_content_lines = <<>>,
                               !.in_file_block = TRUE,
                               !.just_started_block =
                                   MERGE_FORMATS[w.format].skip_line_after_start],
              emits |-> IF \/ Contains(normalized_path_check, "../")
                           \/ StartsWith(normalized_path_check, "/")
                        THEN <<Log("Warning: Potential path traversal detected in delimiter. Final check during write.")>>
                        ELSE <<>>]

\* A flush that counts the block whatever _write_file returns.
flush_counting(w, filesys, track) ==
    LET written == WriteFile(filesys, w.output_dir, w.current_file_path_relative,
                             Concat(w.current_file_content_lines))
    IN  [sw |-> [w EXCEPT !.file_count = @ + 1], fs |-> written.fs,
         ok |-> written.ok, emits |-> <<>>]

\* A flush that writes nothing.
flush_nothing(w, filesys, track) ==
    [sw |-> w, fs |-> filesys, ok |-> FALSE, emits |-> <<>>]

\* A flush that does not count a file this split has written before.
flush_once(w, filesys, track) ==
    LET written == WriteFile(filesys, w.output_dir, w.current_file_path_relative,
                             Concat(w.current_file_content_lines))
        again == joinpath(w.output_dir, w.current_file_path_relative)
                     \in w.created_file_paths
    IN  [sw |-> IF written.ok /\ ~again
                THEN [w EXCEPT !.file_count = @ + 1,
                               !.created_file_paths =
                                   IF track
                                   THEN @ \cup {joinpath(w.output_dir,
                                                         w.current_file_path_relative)}
                                   ELSE @]
                ELSE w,
         fs |-> written.fs,
         ok |-> written.ok,
         emits |-> IF written.ok THEN <<>> ELSE <<Log(written.log)>>]

\* Lines 698-702 and 737-740: the block's lines joined and handed to
\* _write_file.  track tells whether a written file is added to
\* created_file_paths: the flush at the end of the input does not add it.
flush_block(w, filesys, track) ==
    LET content_to_write == Concat(w.current_file_content_lines)
        written == WriteFile(filesys, w.output_dir, w.current_file_path_relative,
                             content_to_write)
    IN  [sw |-> IF written.ok
                THEN [w EXCEPT !.file_count = @ + 1,
                               !.created_file_paths =
                                   IF track
                                   THEN @ \cup {joinpath(w.output_dir,
                                                         w.current_file_path_relative)}
                                   ELSE @]
                ELSE w,
         fs |-> written.fs,
         ok |-> written.ok,
         emits |-> IF written.ok THEN <<>> ELSE <<Log(written.log)>>]

\* A parser that begins a new block at a start line met inside a block.
inside_block_nesting(w, filesys, line, line_stripped) ==
    IF w.just_started_block
    THEN [sw |-> [w EXCEPT !.just_started_block = FALSE], fs |-> filesys, emits |-> <<>>]
    ELSE IF line_stripped = get_end_delimiter(w.format, w.current_file_path_relative)
    THEN LET flushed == flush_block(w, filesys, TRUE)
         IN  [sw |-> [flushed.sw EXCEPT !.in_file_block = FALSE,
                                        !.current_file_path_relative = "",
                                        !.current_file_content_lines = <<>>,
                                        !.just_started_block = FALSE],
              fs |-> flushed.fs,
              emits |-> flushed.emits]
    ELSE IF start_regex_match(w.format, line_stripped).matched
    THEN [sw |-> outside_block(w, line_stripped).sw, fs |-> filesys, emits |-> <<>>]
    ELSE [sw |-> [w EXCEPT !.current_file_content_lines = Append(@, line)],
          fs |-> filesys, emits |-> <<>>]

\* A parser that keeps the trimmed line.
inside_block_trimmed(w, filesys, line, line_stripped) ==
    IF w.just_started_block
    THEN [sw |-> [w EXCEPT !.just_started_block = FALSE], fs |-> filesys, emits |-> <<>>]
    ELSE IF line_stripped = get_end_delimiter(w.format, w.current_file_path_relative)
    THEN LET flushed == flush_block(w, filesys, TRUE)
         IN  [sw |-> [flushed.sw EXCEPT !.in_file_block = FALSE,
                                        !.current_file_path_relative = "",
                                        !.current_file_content_lines = <<>>,
                                        !.just_started_block = FALSE],
              fs |-> flushed.fs,
              emits |-> flushed.emits]
    ELSE [sw |-> [w EXCEPT !.current_file_content_lines = Append(@, line_stripped)],
          fs |-> filesys, emits |-> <<>>]

\* A parser that looks for the end line before it skips a line.
inside_block_comparing(w, filesys, line, line_stripped) ==
    IF line_stripped = get_end_delimiter(w.format, w.current_file_path_relative)
    THEN LET flushed == flush_block(w, filesys, TRUE)
         IN  [sw |-> [flushed.sw EXCEPT !.in_file_block = FALSE,
                                        !.current_file_path_relative = "",
                                        !.current_file_content_lines = <<>>,
                                        !.just_started_block = FALSE],
              fs |-> flushed.fs,
              emits |-> flushed.emits]
    ELSE IF w.just_started_block
    THEN [sw |-> [w EXCEPT !.just_started_block = FALSE], fs |-> filesys, emits |-> <<>>]
    ELSE [sw |-> [w EXCEPT !.current_file_content_lines = Append(@, line)],
          fs |-> filesys, emits |-> <<>>]

\* A parser that stays in the block when its write failed.
inside_block_holding(w, filesys, line, line_stripped) ==
    IF w.just_started_block
    THEN [sw |-> [w EXCEPT !.just_started_block = FALSE], fs |-> filesys, emits |-> <<>>]
    ELSE IF line_stripped = get_end_delimiter(w.format, w.current_file_path_relative)
    THEN LET flushed == flush_block(w, filesys, TRUE)
         IN  [sw |-> IF flushed.ok
                     THEN [flushed.sw EXCEPT !.in_file_block = FALSE,
                                             !.current_file_path_relative = "",
                                             !.current_file_content_lines = <<>>,
                                             !.just_started_block = FALSE]
                     ELSE flushed.sw,
              fs |-> flushed.fs,
              emits |-> flushed.emits]
    ELSE [sw |-> [w EXCEPT !.current_file_content_lines = Append(@, line)],
          fs |-> filesys, emits |-> <<>>]

\* A parser that reads no further line once a write has failed.
inside_block_giving_up(w, filesys, line, line_stripped) ==
    IF w.just_started_block
    THEN [sw |-> [w EXCEPT !.just_started_block = FALSE], fs |-> filesys, emits |-> <<>>]
    ELSE IF line_stripped = get_end_delimiter(w.format, w.current_file_path_relative)
    THEN LET flushed == flush_block(w, filesys, TRUE)
         IN  [sw |-> [flushed.sw EXCEPT !.in_file_block = FALSE,
                                        !.current_file_path_relative = "",
                                        !.current_file_content_lines = <<>>,
                                        !.just_started_block = FALSE,
                                        !.idx = IF flushed.ok THEN @
                                                ELSE Len(w.lines) + 1],
              fs |-> flushed.fs,
              emits |-> flushed.emits]
    ELSE [sw |-> [w EXCEPT !.current_file_content_lines = Append(@, line)],
          fs |-> filesys, emits |-> <<>>]

\* Lines 684-711: a line read inside a block.
inside_block(w, filesys, line, line_stripped) ==
    IF w.just_started_block
    THEN [sw |-> [w EXCEPT !.just_started_block = FALSE], fs |-> filesys, emits |-> <<>>]
    ELSE IF line_stripped = get_end_delimiter(w.format, w.current_file_path_relative)
    THEN LET flushed == flush_block(w, filesys, TRUE)
         IN  [sw |-> [flushed.sw EXCEPT !.in_file_block = FALSE,
                                        !.current_file_path_relative = "",
                                        !.current_file_content_lines = <<>>,
                                        !.just_started_block = FALSE],
              fs |-> flushed.fs,
              emits |-> flushed.emits]
    ELSE [sw |-> [w EXCEPT !.current_file_content_lines = Append(@, line)],
          fs |-> filesys, emits |-> <<>>]

\* Lines 637-711: one line of the artifact.
parse_line(w, filesys, line) ==
    LET processed_size == w.processed_size + ByteLen(line)
        counted == [w EXCEPT !.processed_size = processed_size, !.idx = @ + 1]
        line_stripped == Strip(line)
        progress == progress_if_sized(processed_size, w.total_size)
    IN  IF ~w.in_file_block
        THEN LET r == outside_block(counted, line_stripped)
             IN  [sw |-> r.sw, fs |-> filesys, emits |-> progress \o r.emits]
        ELSE LET r == inside_block(counted, filesys, line, line_stripped)
             IN  [sw |-> r.sw, fs |-> r.fs, emits |-> progress \o r.emits]

\* Lines 633-712: one turn of the loop over the lines.  The flag is polled
\* before each line; after the last line the loop ends without a poll.
S_Line ==
    /\ worker = "splitter" /\ pc = "lines"
    /\ IF ~is_running
       THEN /\ pc' = "after_loop"
            /\ observed' = TRUE
            /\ UNCHANGED <<sw, fs, signals>>
       ELSE LET r == parse_line(sw, fs, sw.lines[sw.idx])
            IN  /\ sw' = r.sw
                /\ fs' = r.fs
                /\ signals' = signals \o r.emits
                /\ pc' = IF r.sw.idx > Len(sw.lines) THEN "after_loop" ELSE "lines"
                /\ observed' = observed
    /\ UNCHANGED <<dialog, scenario, ui, worker, is_running, mw>>

\* Lines 720-729: each path of created_file_paths is resolved and, when a
\* regular file is there, removed.
RECURSIVE UnlinkAll(_, _)
UnlinkAll(filesys, paths) ==
    IF paths = {} THEN filesys
    ELSE LET f_path == CHOOSE q \in paths : TRUE
             f_path_resolved == resolve(f_path)
         IN  UnlinkAll(IF is_file(filesys, f_path_resolved)
                       THEN unlink(filesys, f_path_resolved)
                       ELSE filesys,
                       paths \ {f_path})

\* Lines 714-743: after the loop.  A cleared flag ends the run as cancelled,
\* after the cleanup (failing: the paths whose removal raises an OSError);
\* otherwise a block still open is flushed.
S_AfterLoop ==
    /\ worker = "splitter" /\ pc = "after_loop"
    /\ IF ~is_running
       THEN \E failing \in SUBSET {q \in sw.created_file_paths : is_file(fs, resolve(q))} :
            /\ fs' = UnlinkAll(fs, sw.created_file_paths \ failing)
            /\ signals' = signals \o <<Log("Split cancelled during file processing.")>>
                   \o (IF failing = {} THEN <<>> ELSE <<Log(WARN_NOT_REMOVED)>>)
                   \o <<Log("Cleanup finished."), Finished(FALSE, SPLIT_CANCELLED)>>
            /\ pc' = "finally"
            /\ UNCHANGED sw
       ELSE IF sw.in_file_block /\ sw.current_file_path_relative # ""
       THEN LET flushed == flush_block(sw, fs, FALSE)
            IN  /\ sw' = flushed.sw
                /\ fs' = flushed.fs
                /\ signals' = signals \o <<Log(WARN_NO_END)>> \o flushed.emits
                       \o <<Progress(100)>>
                /\ pc' = "post"
       ELSE /\ signals' = signals \o <<Progress(100)>>
            /\ pc' = "post"
            /\ UNCHANGED <<sw, fs>>
    /\ UNCHANGED <<dialog, scenario, ui, worker, is_running, observed, mw>>

\* An outcome that reports success whenever the split was not cancelled.
S_PostAlways ==
    /\ worker = "splitter" /\ pc = "post"
    /\ signals' = signals \o
           (IF is_running
            THEN <<Log(split_successful_message(sw.file_count)),
                   Finished(TRUE, split_successful_message(sw.file_count))>>
            ELSE <<>>)
    /\ pc' = "finally"
    /\ UNCHANGED <<dialog, scenario, ui, worker, is_running, observed, fs, mw, sw>>

\* Lines 744-753: the outcome.  With no file created and the flag cleared
\* nothing is emitted.
S_Post ==
    /\ worker = "splitter" /\ pc = "post"
    /\ signals' = signals \o
           (IF sw.file_count > 0
            THEN <<Log(split_successful_message(sw.file_count)),
                   Finished(TRUE, split_successful_message(sw.file_count))>>
            ELSE IF ~is_running
            THEN <<>>
            ELSE <<Log(SPLIT_NO_BLOCKS), Finished(FALSE, SPLIT_NO_BLOCKS)>>)
    /\ pc' = "finally"
    /\ UNCHANGED <<dialog, scenario, ui, worker, is_running, observed, fs, mw, sw>>

\* Lines 775-777: the finally clause.
S_Finally ==
    /\ worker = "splitter" /\ pc = "finally"
    /\ signals' = signals \o (IF is_running THEN <<Progress(100)>> ELSE <<>>)
    /\ pc' = "done"
    /\ UNCHANGED <<dialog, scenario, ui, worker, is_running, observed, fs, mw, sw>>

(***************************************************************************)
(* MergerWorker.run                                                        *)
(*                                                                         *)
(* The output file is written through as the worker writes it; the text of *)
(* the model's files is ASCII, which decodes as UTF-8 to itself.           *)
(***************************************************************************)
MERGE_CANCELLED_SCAN == "Merge cancelled during scan."
MERGE_CANCELLED == "Merge cancelled."
\* An empty scan reported as a cancelled one.
empty_as_cancelled == "Merge cancelled during scan."

MERGE_NO_FILES == "No files to merge."
MERGE_NO_OUTPUT_DIR == "Merge failed: Could not create output directory."
MERGE_UNEXPECTED == "Merge failed due to unexpected error"
MERGE_SUCCESSFUL == "Merge successful!"
ERROR_READING == "Error reading file: [Errno 13] Permission denied"

\* A MergerWorker as __init__ leaves it, with the locals of run() as line
\* 164-181 sets them.
MergerWorker(items_to_merge, output_file, f, include_tree) ==
    [items_to_merge |-> items_to_merge, output_file |-> output_file,
     format |-> f, include_tree |-> include_tree,
     item_idx |-> 1, item_path |-> <<>>, base_path |-> <<>>, walk |-> <<>>,
     files_discovered_in_scan |-> <<>>, total_size |-> 0,
     encountered_resolved_paths |-> {},
     files_to_process |-> <<>>, i |-> 1,
     processed_size |-> 0, processed_files_count |-> 0]

\* The sequences that list the elements of a set once each.
Perms(S) ==
    {seq \in [1..Cardinality(S) -> S] :
        \A a, b \in 1..Cardinality(S) : a # b => seq[a] # seq[b]}

\* os.walk(top): the directories from the top down, each with its file
\* names, in an order the file system chooses.  A visit is the check of line
\* 252, a file the check of line 255 and what follows it, and the end of a
\* directory's names the checks of lines 301-302.
RECURSIVE WalkOrders(_, _), WalkEach(_, _)
WalkOrders(filesys, top) ==
    LET filenames == {q \in DOMAIN filesys.files : parent(q) = top /\ q # top}
        dirnames == {d \in filesys.dirs : parent(d) = top /\ d # top}
    IN  {<<[step |-> "dir", path |-> top]>>
         \o [k \in 1..Len(order) |-> [step |-> "file", path |-> order[k]]]
         \o <<[step |-> "end", path |-> top]>>
         \o below :
            order \in Perms(filenames),
            below \in UNION {WalkEach(filesys, subdirs) : subdirs \in Perms(dirnames)}}

WalkEach(filesys, subdirs) ==
    IF subdirs = <<>> THEN {<<>>}
    ELSE {first \o others : first \in WalkOrders(filesys, Head(subdirs)),
                            others \in WalkEach(filesys, Tail(subdirs))}

\* file_path.relative_to(base_path); it raises ValueError when base_path is
\* neither the path nor above it.
relative_to_raises(file_path, base_path) == ~IsPrefix(base_path, file_path)

relative_to(file_path, base_path) ==
    SubSeq(file_path, Len(base_path) + 1, Len(file_path))

\* A scan that records a file each time it is reached.
discover_again(w, filesys, stat_fails, file_path, base_path, fallback_base) ==
    [mw |-> [w EXCEPT
               !.files_discovered_in_scan =
                   Append(@, [absolute_path |-> file_path,
                              relative_path |->
                                  IF relative_to_raises(file_path, base_path)
                                  THEN relative_to(file_path, fallback_base)
                                  ELSE relative_to(file_path, base_path),
                              fsize |-> 0])],
     emits |-> <<>>]

\* Lines 203-240 and 258-296: a file reached by the scan.  A path met before
\* is passed over; otherwise the record is the path, its path relative to
\* base_path (to fallback_base when base_path is not above it) and its size
\* (0 when stat fails).
discover(w, filesys, stat_fails, file_path, base_path, fallback_base) ==
    LET raises == relative_to_raises(file_path, base_path)
        relative_path == IF raises THEN relative_to(file_path, fallback_base)
                         ELSE relative_to(file_path, base_path)
        fsize == IF stat_fails THEN 0 ELSE ByteLen(filesys.files[file_path])
    IN  IF file_path \in w.encountered_resolved_paths
        THEN [mw |-> w, emits |-> <<>>]
        ELSE [mw |-> [w EXCEPT
                        !.files_discovered_in_scan =
                            Append(@, [absolute_path |-> file_path,
                                       relative_path |-> relative_path,
                                       fsize |-> fsize]),
                        !.total_size = @ + fsize,
                        !.encountered_resolved_paths = @ \cup {file_path}],
              emits |-> (IF raises
                         THEN <<Log("Warning: Could not make path relative to base.")>>
                         ELSE <<>>)
                        \o (IF stat_fails
                            THEN <<Log("Warning: Could not get size. Using size 0.")>>
                            ELSE <<>>)]

\* The character U+0000 of a path string, written % here.
NUL == "%"

\* Lines 190-192: pathlib.Path(...).resolve() raises ValueError ("embedded
\* null byte") for a string with U+0000 in it; an empty base is not
\* resolved.
resolve_raises(path_str) == Contains(path_str, NUL)

\* Line 204: item_path.is_file() stats the path, and pathlib hands on every
\* OSError but ENOENT, ENOTDIR, EBADF and ELOOP: a file whose stat is
\* refused (EACCES) makes is_file() raise.
is_file_raises(stat_fails) == stat_fails

\* Lines 158-181.
M_Start ==
    /\ worker = "merger" /\ pc = "m_start"
    /\ signals' = signals \o <<Log("Starting merge process")>>
           \o (IF mw.include_tree
               THEN <<Log("File hierarchy tree will be included.")>> ELSE <<>>)
           \o <<Log("Scanning files and folders based on input selections...")>>
    /\ pc' = IF mw.items_to_merge = <<>> THEN "m_scan_end" ELSE "m_scan"
    /\ UNCHANGED <<dialog, scenario, ui, worker, is_running, observed, fs, mw, sw>>

\* Where the loop over the selection goes after the entry item_idx.
after_item(w) == IF w.item_idx >= Len(w.items_to_merge) THEN "m_scan_end" ELSE "m_scan"

\* Lines 183-250 and 303-304: one entry of the selection.  The flag is
\* polled before each entry.  An entry whose path does not resolve is passed
\* over with a warning.  A file is recorded at once; a folder starts a
\* walk.  For a file whose stat is refused, the stat of is_file() (line 204)
\* raises outside the try statement of line 206 and the handler of line 446
\* ends the run, or that stat succeeds and the one of line 208 fails, which
\* records size 0.
M_Scan ==
    /\ worker = "merger" /\ pc = "m_scan"
    /\ IF ~is_running
       THEN /\ observed' = TRUE
            /\ pc' = "m_scan_end"
            /\ UNCHANGED <<mw, signals>>
       ELSE LET item == mw.items_to_merge[mw.item_idx]
                item_path == resolve(PathParts(item.item_path_str))
                base_path == IF item.base_path_str # ""
                             THEN resolve(PathParts(item.base_path_str))
                             ELSE parent(item_path)
                next == [mw EXCEPT !.item_idx = @ + 1]
            IN  /\ observed' = observed
                /\ IF resolve_raises(item.item_path_str) \/ resolve_raises(item.base_path_str)
                   THEN /\ mw' = next
                        /\ signals' = signals \o
                               <<Log("Warning: Error processing path. Skipping item.")>>
                        /\ pc' = after_item(mw)
                   ELSE IF item.item_type = "file"
                   THEN IF is_file(fs, item_path)
                        THEN \/ /\ is_file_raises(item_path \in scenario.unstatable)
                                /\ mw' = mw
                                /\ signals' = signals \o
                                       <<Log("An unexpected error occurred during merge"),
                                         Error("Merge failed"),
                                         Finished(FALSE, MERGE_UNEXPECTED)>>
                                /\ pc' = "m_finally"
                             \/ LET r == discover(next, fs, item_path \in scenario.unstatable,
                                                  item_path, base_path, parent(item_path))
                                IN  /\ mw' = r.mw
                                    /\ signals' = signals \o r.emits
                                    /\ pc' = after_item(mw)
                        ELSE /\ mw' = next
                             /\ signals' = signals \o
                                    <<Log("Warning: Selected file not found during scan")>>
                             /\ pc' = after_item(mw)
                   ELSE IF is_dir(fs, item_path)
                        THEN \E order \in WalkOrders(fs, item_path) :
                                /\ mw' = [mw EXCEPT !.item_path = item_path,
                                                    !.base_path = base_path,
                                                    !.walk = order]
                                /\ signals' = signals
                                /\ pc' = "m_walk"
                        ELSE /\ mw' = next
                             /\ signals' = signals \o
                                    <<Log("Warning: Selected folder not found during scan")>>
                             /\ pc' = after_item(mw)
    /\ UNCHANGED <<dialog, scenario, ui, worker, is_running, fs, sw>>

\* Lines 251-302: one step of the walk of a folder.  The flag is polled on
\* entering a directory, before each file name and after a directory's
\* names; cleared, it ends the walk and the loop over the selection.
M_Walk ==
    /\ worker = "merger" /\ pc = "m_walk"
    /\ IF ~is_running
       THEN /\ observed' = TRUE
            /\ pc' = "m_scan_end"
            /\ UNCHANGED <<mw, signals>>
       ELSE LET this == Head(mw.walk)
                r == IF this.step = "file"
                     THEN discover(mw, fs, this.path \in scenario.unstatable,
                                   this.path, mw.base_path, mw.item_path)
                     ELSE [mw |-> mw, emits |-> <<>>]
                last == Len(mw.walk) = 1
            IN  /\ observed' = observed
                /\ mw' = [r.mw EXCEPT !.walk = Tail(@),
                                      !.item_idx = IF last THEN @ + 1 ELSE @]
                /\ signals' = signals \o r.emits
                /\ pc' = IF last THEN after_item(mw) ELSE "m_walk"
    /\ UNCHANGED <<dialog, scenario, ui, worker, is_running, fs, sw>>

\* Line 111: one warning for each path of the tree whose first part is not
\* the first part of the first path.
tree_warnings(files_to_process) ==
    LET paths == tree_paths(files_to_process)
    IN  [k \in 1..Len(SelectSeq(paths, LAMBDA parts : parts[1] # paths[1][1])) |->
            Log("Warning: Path does not share common root. Adding as separate root.")]

\* pathlib.Path(self.output_file)
output_file_path(w) == PathParts(w.output_file)

\* Lines 308-355: after the scan.  A cleared flag ends the run as cancelled
\* with the output file untouched; otherwise the records are sorted, the
\* output file is opened and the tree written.
M_ScanEnd ==
    /\ worker = "merger" /\ pc = "m_scan_end"
    /\ LET files_to_process == sorted_files(mw.files_discovered_in_scan)
           made == mkdir(fs, parent(output_file_path(mw)))
           tree_content == generate_hierarchy_tree_string(files_to_process)
           found == <<Log("Found unique files to merge."), Progress(0)>>
       IN  IF ~is_running
           THEN /\ signals' = signals \o <<Log("Merge cancelled during scanning phase."),
                                           Finished(FALSE, MERGE_CANCELLED_SCAN)>>
                /\ pc' = "m_finally"
                /\ UNCHANGED <<mw, fs>>
           ELSE IF files_to_process = <<>>
           THEN /\ signals' = signals \o
                       <<Log("No valid, unique files found to merge after scanning."),
                         Finished(FALSE, MERGE_NO_FILES)>>
                /\ pc' = "m_finally"
                /\ UNCHANGED <<mw, fs>>
           ELSE IF mkdir_fails(fs, parent(output_file_path(mw)))
           THEN /\ signals' = signals \o found \o
                       <<Log("Error: Could not create output directory"),
                         Error("Failed to create output directory"),
                         Finished(FALSE, MERGE_NO_OUTPUT_DIR)>>
                /\ pc' = "m_finally"
                /\ mw' = [mw EXCEPT !.files_to_process = files_to_process]
                /\ UNCHANGED fs
           ELSE IF open_fails(made, output_file_path(mw))
           THEN /\ signals' = signals \o found \o
                       <<Log("An unexpected error occurred during merge"),
                         Error("Merge failed"),
                         Finished(FALSE, MERGE_UNEXPECTED)>>
                /\ pc' = "m_finally"
                /\ mw' = [mw EXCEPT !.files_to_process = files_to_process]
                /\ fs' = made
           ELSE /\ signals' = signals \o found \o
                       (IF mw.include_tree
                        THEN <<Log("Generating and writing hierarchy tree...")>>
                             \o tree_warnings(files_to_process)
                        ELSE <<>>)
                /\ pc' = "m_write"
                /\ mw' = [mw EXCEPT !.files_to_process = files_to_process, !.i = 1]
                /\ fs' = open_write(made, output_file_path(mw),
                                    IF mw.include_tree
                                    THEN tree_content \o MERGE_FORMATS[mw.format].file_separator
                                    ELSE "")
    /\ UNCHANGED <<dialog, scenario, ui, worker, is_running, observed, sw>>

\* Lines 423-428: the progress after a file.
merge_progress(processed_size, total_size, processed_files_count, total_files_count) ==
    IF total_size > 0 THEN int_percent(processed_size, total_size)
    ELSE IF total_files_count > 0 THEN int_percent(processed_files_count, total_files_count)
    ELSE 0

\* A read that gives nothing for a file that cannot be read.
read_content_blank(filesys, unreadable, absolute_path) ==
    IF is_file(filesys, absolute_path) /\ absolute_path \notin unreadable
    THEN filesys.files[absolute_path]
    ELSE ""

\* Lines 379-398: the content of a file as the merger reads it; a file that
\* cannot be read gives the text of the error.
read_content(filesys, unreadable, absolute_path) ==
    IF is_file(filesys, absolute_path) /\ absolute_path \notin unreadable
    THEN filesys.files[absolute_path]
    ELSE ERROR_READING

\* A turn of the loop that writes the separator after the last block too.
M_WriteTrailing ==
    /\ worker = "merger" /\ pc = "m_write"
    /\ IF ~is_running
       THEN /\ observed' = TRUE
            /\ pc' = "m_final"
            /\ UNCHANGED <<mw, fs, signals>>
       ELSE LET record == mw.files_to_process[mw.i]
                total_files_count == Len(mw.files_to_process)
                relative_path_str == as_posix(record.relative_path)
                readable == is_file(fs, record.absolute_path)
                            /\ record.absolute_path \notin scenario.unreadable
                file_content == read_content(fs, scenario.unreadable, record.absolute_path)
                processed_size == mw.processed_size + record.fsize
                processed_files_count == mw.processed_files_count + 1
                written == fs.files[output_file_path(mw)]
                           \o file_block(mw.format, relative_path_str, file_content)
                           \o MERGE_FORMATS[mw.format].file_separator
            IN  /\ observed' = observed
                /\ fs' = open_write(fs, output_file_path(mw), written)
                /\ mw' = [mw EXCEPT !.i = @ + 1,
                                    !.processed_size = processed_size,
                                    !.processed_files_count = processed_files_count]
                /\ signals' = signals
                       \o (IF readable THEN <<>>
                           ELSE <<Log("Error reading file. Inserting error message.")>>)
                       \o <<Progress(Min(merge_progress(processed_size, mw.total_size,
                                                        processed_files_count,
                                                        total_files_count), 100))>>
                /\ pc' = IF mw.i >= total_files_count THEN "m_final" ELSE "m_write"
    /\ UNCHANGED <<dialog, scenario, ui, worker, is_running, sw>>

\* Lines 358-429: one turn of the loop over the records.  The flag is polled
\* before each file; the block of the file is written, and the separator
\* unless the file is the last.
M_Write ==
    /\ worker = "merger" /\ pc = "m_write"
    /\ IF ~is_running
       THEN /\ observed' = TRUE
            /\ pc' = "m_final"
            /\ UNCHANGED <<mw, fs, signals>>
       ELSE LET record == mw.files_to_process[mw.i]
                total_files_count == Len(mw.files_to_process)
                relative_path_str == as_posix(record.relative_path)
                readable == is_file(fs, record.absolute_path)
                            /\ record.absolute_path \notin scenario.unreadable
                file_content == read_content(fs, scenario.unreadable, record.absolute_path)
                processed_size == mw.processed_size + record.fsize
                processed_files_count == mw.processed_files_count + 1
                written == fs.files[output_file_path(mw)]
                           \o file_block(mw.format, relative_path_str, file_content)
                           \o (IF mw.i < total_files_count
                               THEN MERGE_FORMATS[mw.format].file_separator ELSE "")
            IN  /\ observed' = observed
                /\ fs' = open_write(fs, output_file_path(mw), written)
                /\ mw' = [mw EXCEPT !.i = @ + 1,
                                    !.processed_size = processed_size,
                                    !.processed_files_count = processed_files_count]
                /\ signals' = signals
                       \o (IF readable THEN <<>>
                           ELSE <<Log("Error reading file. Inserting error message.")>>)
                       \o <<Progress(Min(merge_progress(processed_size, mw.total_size,
                                                        processed_files_count,
                                                        total_files_count), 100))>>
                /\ pc' = IF mw.i >= total_files_count THEN "m_final" ELSE "m_write"
    /\ UNCHANGED <<dialog, scenario, ui, worker, is_running, sw>>

\* An outcome that reports success without a look at the flag.
M_FinalUnpolled ==
    /\ worker = "merger" /\ pc = "m_final"
    /\ signals' = signals \o <<Progress(100), Finished(TRUE, MERGE_SUCCESSFUL)>>
    /\ pc' = "m_finally"
    /\ UNCHANGED <<dialog, scenario, ui, worker, is_running, observed, fs, mw, sw>>

\* Lines 433-445: the outcome.  A cleared flag ends the run as cancelled
\* after the output file is removed (remove_fails: unlink raises an
\* OSError, which is logged).
M_Final ==
    /\ worker = "merger" /\ pc = "m_final"
    /\ IF ~is_running
       THEN \E remove_fails \in (IF is_file(fs, output_file_path(mw))
                                 THEN BOOLEAN ELSE {FALSE}) :
            /\ fs' = IF is_file(fs, output_file_path(mw)) /\ ~remove_fails
                     THEN unlink(fs, output_file_path(mw)) ELSE fs
            /\ signals' = signals \o
                   <<Log("Merge cancelled during writing phase."),
                     Log(IF remove_fails THEN "Could not remove incomplete file"
                         ELSE "Removed incomplete file"),
                     Finished(FALSE, MERGE_CANCELLED)>>
       ELSE /\ signals' = signals \o
                   <<Progress(100), Log("Merge process completed successfully."),
                     Finished(TRUE, MERGE_SUCCESSFUL)>>
            /\ UNCHANGED fs
    /\ pc' = "m_finally"
    /\ UNCHANGED <<dialog, scenario, ui, worker, is_running, observed, mw, sw>>

\* Lines 451-454: the finally clause.
M_Finally ==
    /\ worker = "merger" /\ pc = "m_finally"
    /\ signals' = signals \o (IF is_running THEN <<Progress(100)>> ELSE <<>>)
    /\ pc' = "done"
    /\ UNCHANGED <<dialog, scenario, ui, worker, is_running, observed, fs, mw, sw>>

(***************************************************************************)
(* The caller (ui_main_window.py)                                          *)
(***************************************************************************)
\* The window's view of its worker: worker_thread is "running" from
\* worker_thread.start() until operation_finished has stopped the thread,
\* active counts the worker objects made and not yet released, requests the
\* start requests made so far, busy those of them turned down because the
\* thread was running.
Window(worker_thread, active, requests, busy) ==
    [worker_thread |-> worker_thread, active |-> active, requests |-> requests,
     busy |-> busy]

\* The window before the first start request, and after it.
IdleWindow == Window("none", 0, 0, 0)
FirstStart == Window("running", 1, 1, 0)

\* A busy check that never finds a thread.
never_running(u) == FALSE

\* Lines 1167 and 1248: self.worker_thread and self.worker_thread.isRunning()
thread_is_running(u) == u.worker_thread = "running"

\* cancel_operation: worker.stop() clears the flag of the worker whose thread
\* is running.  Once run() has returned, or an exception has left it, nothing
\* reads the flag any more.
Cancel ==
    /\ ui.worker_thread = "running"
    /\ pc \notin {"done", "raised"}
    /\ is_running
    /\ is_running' = FALSE
    /\ UNCHANGED <<dialog, scenario, ui, worker, pc, observed, signals, fs, mw, sw>>

\* operation_finished, the slot of the finished signal (lines 348-423): the
\* thread is told to quit and waited for, and terminated if it does not end
\* in time, which cuts short what run() had left to do after the signal;
\* then worker and worker_thread are set to None.
operation_finished ==
    /\ ui.worker_thread = "running"
    /\ \E k \in 1..Len(signals) : signals[k].sig = "finished"
    /\ pc' = "done"
    /\ ui' = [ui EXCEPT !.worker_thread = "none", !.active = 0]
    /\ UNCHANGED <<dialog, scenario, worker, is_running, observed, signals, fs, mw, sw>>

(***************************************************************************)
(* Hand-made artifacts for the splitter                                    *)
(***************************************************************************)
MaxBlocks == 2

\* The captured paths of the hand-made blocks: plain ones, one with a leading
\* dot, one with a backslash, parent steps in front and in the middle, an
\* absolute one and the empty one.
CraftPaths ==
    {"a", "d/b", ".g", "d\\b",
     "../../etc/passwd", "a\\..\\..\\x", "/etc/passwd", ""}

CraftBlocks == [path : CraftPaths, content : {"h\n"}]

\* The shapes of the hand-made artifacts: each format with and without a
\* tree section, the last block closed or left open; and one split whose
\* output directory is not there.
CraftShape(f, tree, closed, output_dir_there) ==
    [format |-> f, tree |-> tree, closed |-> closed,
     output_dir_there |-> output_dir_there]

CraftShapes ==
    {CraftShape(f, FALSE, TRUE, TRUE) : f \in FormatNames}
    \cup {CraftShape(f, TRUE, FALSE, TRUE) : f \in FormatNames}
    \cup {CraftShape("Default", FALSE, FALSE, FALSE)}

\* A tree section as the merger writes it for one file.
CraftTree ==
    TREE_START_DELIMITER \o "\n" \o "+== a/" \o "\n" \o TREE_END_DELIMITER \o "\n"

\* The block of a descriptor, written as the merger writes blocks; a block
\* that is not closed lacks its end line.
craft_block(f, b, closed) ==
    IF closed THEN file_block(f, b.path, b.content)
    ELSE start_delimiter(f, b.path) \o "\n" \o MERGE_FORMATS[f].content_prefix
         \o b.content

RECURSIVE craft_blocks(_, _, _)
craft_blocks(f, blocks, closed) ==
    IF Len(blocks) = 1 THEN craft_block(f, blocks[1], closed)
    ELSE craft_block(f, blocks[1], TRUE) \o MERGE_FORMATS[f].file_separator
         \o craft_blocks(f, Tail(blocks), closed)

craft(f, tree, blocks, closed) ==
    (IF tree THEN CraftTree \o MERGE_FORMATS[f].file_separator ELSE "")
    \o craft_blocks(f, blocks, closed)

\* The file system a split starts in: the artifact, an output directory that
\* holds one file of its own, and a file outside it.
SplitFs(artifact) ==
    [dirs |-> {<<>>, <<"w">>, OUTPUT_DIR, <<"etc">>},
     files |-> (MERGED_FILE :> artifact)
               @@ (<<"etc", "passwd">> :> "root\n")
               @@ (<<"w", "o", ".g">> :> "old\n")]

\* A file system whose output directory, with what it held, is gone.
without_output_dir(filesys) ==
    [dirs |-> {d \in filesys.dirs : ~IsPrefix(OUTPUT_DIR, d)},
     files |-> [q \in {p \in DOMAIN filesys.files : ~IsPrefix(OUTPUT_DIR, p)} |->
                   filesys.files[q]]]

\* The file system of a split of the shape.
ShapeFs(shape, artifact) ==
    IF shape.output_dir_there THEN SplitFs(artifact)
    ELSE without_output_dir(SplitFs(artifact))

NoMerger == MergerWorker(<<>>, "", "Default", FALSE)

InitSplit ==
    \E shape \in CraftShapes, n \in 1..MaxBlocks :
    \E blocks \in [1..n -> CraftBlocks] :
    LET f == shape.format
        artifact == craft(f, shape.tree, blocks, shape.closed)
    IN
        /\ dialog = [open |-> FALSE]
        /\ scenario = [kind |-> "split", format |-> f, tree |-> shape.tree,
                       blocks |-> blocks, closed |-> shape.closed,
                       output_dir_there |-> shape.output_dir_there,
                       artifact |-> artifact]
        /\ worker = "splitter"
        /\ pc = "start"
        /\ is_running = TRUE
        /\ observed = FALSE
        /\ signals = <<>>
        /\ fs = ShapeFs(shape, artifact)
        /\ mw = NoMerger
        /\ sw = SplitterWorker(MERGED_FILE, OUTPUT_DIR, f)
        /\ ui = FirstStart

\* Artifacts for the parser, in the format f: a block with a start line and
\* a padded line inside it, closed by a padded end line, then a stray line
\* and a second block; start lines with an empty, an absolute and a parent
\* path before a plain block; blocks whose file cannot be written (a file in
\* the place of the parent, a directory in the place of the file) before a
\* plain block; a block with no content prefix; a start line at the end of
\* the input; a start line that follows a start line; a tree section with
\* no end sentinel before a plain block; and two blocks with the same path.
ParserArtifacts(f) ==
    LET S(path) == start_delimiter(f, path) \o "\n"
        P == MERGE_FORMATS[f].content_prefix
        E(path) == end_delimiter(f, path) \o "\n"
    IN  {S("a") \o P \o "h\n" \o S("b") \o " k \n" \o "  " \o end_delimiter(f, "a") \o "  \n"
            \o "stray\n" \o S("b") \o P \o "j\n" \o E("b"),
         S("") \o P \o "x\n" \o E("") \o S("/etc/passwd") \o P \o "y\n" \o E("/etc/passwd")
            \o S("../q") \o P \o "z\n" \o E("../q") \o S("a") \o P \o "h\n" \o E("a"),
         S("f/x") \o P \o "h\n" \o E("f/x") \o S("dd") \o P \o "h\n" \o E("dd")
            \o S("a") \o P \o "h\n" \o E("a"),
         S("a") \o "h\n" \o E("a") \o S("b") \o E("b"),
         S("b") \o P \o "j\n" \o E("b") \o S("a"),
         S("a") \o S("b") \o "h\n" \o E("a"),
         TREE_START_DELIMITER \o "\n" \o "r/\n" \o S("a") \o P \o "h\n" \o E("a"),
         S("a") \o P \o "h\n" \o E("a") \o S("a") \o P \o "j\n" \o E("a")}

\* The file system of a split with, in the output directory, a file f and a
\* directory dd.
ParseFs(artifact) ==
    [dirs |-> SplitFs(artifact).dirs \cup {OUTPUT_DIR \o <<"dd">>},
     files |-> SplitFs(artifact).files @@ (OUTPUT_DIR \o <<"f">> :> "old\n")]

InitParse ==
    \E f \in FormatNames : \E artifact \in ParserArtifacts(f) :
        /\ dialog = [open |-> FALSE]
        /\ scenario = [kind |-> "parse", format |-> f, tree |-> FALSE,
                       blocks |-> <<>>, closed |-> TRUE, output_dir_there |-> TRUE,
                       artifact |-> artifact]
        /\ worker = "splitter"
        /\ pc = "start"
        /\ is_running = TRUE
        /\ observed = FALSE
        /\ signals = <<>>
        /\ fs = ParseFs(artifact)
        /\ mw = NoMerger
        /\ sw = SplitterWorker(MERGED_FILE, OUTPUT_DIR, f)
        /\ ui = FirstStart

\* Splits that cannot start: a descriptor that lacks a key, an artifact that
\* is not there, or both.
FatalStarts ==
    {st \in [lacks : {"", "name", "start_regex_pattern", "get_end_delimiter"},
             input_there : BOOLEAN] : st.lacks # "" \/ ~st.input_there}

FatalArtifact == craft("Default", FALSE, <<[path |-> "a", content |-> "h\n"]>>, TRUE)

FatalFs(input_there) ==
    IF input_there THEN SplitFs(FatalArtifact)
    ELSE unlink(SplitFs(FatalArtifact), MERGED_FILE)

InitSplitFatal ==
    \E st \in FatalStarts :
        /\ dialog = [open |-> FALSE]
        /\ scenario = [kind |-> "fatal", format |-> "Default",
                       lacks |-> st.lacks, input_there |-> st.input_there]
        /\ worker = "splitter"
        /\ pc = "start"
        /\ is_running = TRUE
        /\ observed = FALSE
        /\ signals = <<>>
        /\ fs = FatalFs(st.input_there)
        /\ mw = NoMerger
        /\ sw = [SplitterWorker(MERGED_FILE, OUTPUT_DIR, "Default")
                    EXCEPT !.lacks = st.lacks]
        /\ ui = FirstStart

NextSplit ==
    \/ S_Start
    \/ S_TreeSkip
    \/ S_ReadRest
    \/ S_Line
    \/ S_AfterLoop
    \/ S_Post
    \/ S_Finally

(***************************************************************************)
(* Selections for the merger                                               *)
(***************************************************************************)
MaxItems == 2
MaxFiles == 2

Item(item_type, item_path_str, base_path_str) ==
    [item_type |-> item_type, item_path_str |-> item_path_str,
     base_path_str |-> base_path_str]

\* Entries of a selection: files and folders with the base the window gives
\* them, a base that is not above the entry, no base, a path with a parent
\* step, entries that are not there and one whose path does not resolve.
ItemPool ==
    {Item("file", "/r/a", "/r"),
     Item("file", "/r/d/b", ""),
     Item("file", "/r/d/b", "/q"),
     Item("file", "/r/zz", "/r"),
     Item("folder", "/r", "/r"),
     Item("folder", "/r/d", "/r"),
     Item("folder-root", "/r", "/"),
     Item("folder", "/r/d/../d", "/q"),
     Item("folder", "/r/none", "/r"),
     Item("file", "/r/a" \o NUL \o "b", "/r")}

\* The file system a merge starts in: the sources below /r, and the place
\* of the output with an empty directory beside it.
MergeFs(sources) ==
    [dirs |-> {<<>>, <<"r">>, <<"r", "d">>, <<"q">>, <<"w">>, OUTPUT_DIR},
     files |-> sources]

ScanSources ==
    (<<"r", "a">> :> "aa\n") @@ (<<"r", "d", "b">> :> "b") @@ (<<"r", "d", "C">> :> "")

\* Where the output goes and what fails: the plain case, with and without
\* the tree; an output file that is there already; a parent directory still
\* to be made; a directory in the output's place; a file in the place of its
\* parent; a source whose size cannot be read; a source that cannot be read.
Env(output_file, include_tree, preexisting, unstatable, unreadable) ==
    [output_file |-> output_file, include_tree |-> include_tree,
     preexisting |-> preexisting, unstatable |-> unstatable,
     unreadable |-> unreadable]

EnvPool ==
    {Env("/w/in.txt", FALSE, FALSE, {}, {}),
     Env("/w/in.txt", TRUE, FALSE, {}, {}),
     Env("/w/in.txt", FALSE, TRUE, {}, {}),
     Env("/w/n/in.txt", TRUE, FALSE, {}, {}),
     Env("/w/o", FALSE, FALSE, {}, {}),
     Env("/r/a/in.txt", FALSE, FALSE, {}, {}),
     Env("/w/in.txt", FALSE, FALSE, {<<"r", "a">>}, {}),
     Env("/w/in.txt", TRUE, FALSE, {}, {<<"r", "d", "b">>})}

InitMerge(kind, f, items, sources, env) ==
    /\ dialog = [open |-> FALSE]
    /\ scenario = [kind |-> kind, format |-> f, items |-> items,
                   sources |-> sources, env |-> env,
                   unstatable |-> env.unstatable, unreadable |-> env.unreadable]
    /\ worker = "merger"
    /\ pc = "m_start"
    /\ is_running = TRUE
    /\ observed = FALSE
    /\ signals = <<>>
    /\ fs = IF env.preexisting
            THEN open_write(MergeFs(sources), PathParts(env.output_file), "old\n")
            ELSE MergeFs(sources)
    /\ mw = MergerWorker(items, env.output_file, f, env.include_tree)
    /\ sw = SplitterWorker(MERGED_FILE, OUTPUT_DIR, f)
    /\ ui = FirstStart

\* Entries named with a file whose size cannot be read.
UnstatablePool ==
    {Item("file", "/r/a", "/r"), Item("folder", "/r/d", "/r"), Item("folder", "/r", "/r")}

\* A content of n bytes.
RECURSIVE Filler(_)
Filler(n) == IF n = 0 THEN "" ELSE "x" \o Filler(n - 1)

\* Two files of 29 and 71 bytes: after the first, 29 of 100 bytes are done.
RoundingSources ==
    (<<"r", "a">> :> Filler(29)) @@ (<<"r", "b">> :> Filler(71))

\* Three files whose contents are empty, end in no line feed and end in a
\* line feed.
EndingsSources ==
    (<<"r", "a">> :> "") @@ (<<"r", "b">> :> "h") @@ (<<"r", "c">> :> "h\n")

\* Entries with a file named as its own base.
OwnBasePool ==
    {Item("file", "/r/a", "/r/a"), Item("file", "/r/d/b", "/r")}

\* Selections of up to MaxItems entries over fixed sources.
\* Every selection of up to MaxItems entries in the plain place, with and
\* without the tree, every single entry in every place, and the entries
\* of OwnBasePool, a folder with the files of RoundingSources, a folder
\* with the files of EndingsSources in each format, and the
\* entries of UnstatablePool with a source whose size cannot be read.
InitMergeScan ==
    \/ \E n \in 0..MaxItems, include_tree \in BOOLEAN :
       \E items \in [1..n -> ItemPool] :
           InitMerge("merge", "Default", items, ScanSources,
                     Env("/w/in.txt", include_tree, FALSE, {}, {}))
    \/ \E item \in ItemPool, env \in EnvPool :
           InitMerge("merge", "Default", <<item>>, ScanSources, env)
    \/ \E n \in 1..MaxItems : \E items \in [1..n -> OwnBasePool] :
           InitMerge("merge", "Default", items, ScanSources,
                     Env("/w/in.txt", FALSE, FALSE, {}, {}))
    \/ InitMerge("merge", "Default", <<Item("folder", "/r", "/r")>>, RoundingSources,
                 Env("/w/in.txt", FALSE, FALSE, {}, {}))
    \/ \E f \in FormatNames :
           InitMerge("merge", f, <<Item("folder", "/r", "/r")>>, EndingsSources,
                     Env("/w/in.txt", FALSE, FALSE, {}, {}))
    \/ \E items \in [1..MaxItems -> UnstatablePool] :
           InitMerge("merge", "Default", items, ScanSources,
                     Env("/w/in.txt", FALSE, FALSE, {<<"r", "a">>}, {}))

\* The files a round trip is made with: a plain name, a name that begins
\* with a dot, one in a directory and one that ends in a space.
RoundTripPaths ==
    {<<"r", "a">>, <<"r", ".g">>, <<"r", "d", "b">>, <<"r", "c ">>}

RoundTripContents == {"", "h", "h\n"}

\* A folder of up to MaxFiles files merged in each format, to be split again.
InitRoundTrip ==
    \E f \in FormatNames, include_tree \in BOOLEAN :
    \E chosen \in {S \in SUBSET RoundTripPaths : Cardinality(S) \in 1..MaxFiles} :
    \E sources \in [chosen -> RoundTripContents] :
        InitMerge("roundtrip", f, <<Item("folder", "/r", "/r")>>, sources,
                  Env("/w/in.txt", include_tree, FALSE, {}, {}))

\* start_split: after a merge that succeeded, the caller splits the merged
\* file with the same format into the empty directory.
StartSplit ==
    /\ scenario.kind = "roundtrip"
    /\ ~thread_is_running(ui)
    /\ worker = "merger" /\ pc = "done"
    /\ \E k \in 1..Len(signals) : signals[k] = Finished(TRUE, MERGE_SUCCESSFUL)
    /\ worker' = "splitter"
    /\ pc' = "start"
    /\ is_running' = TRUE
    /\ observed' = FALSE
    /\ signals' = <<>>
    /\ sw' = SplitterWorker(output_file_path(mw), OUTPUT_DIR, mw.format)
    /\ ui' = Window("running", ui.active + 1, ui.requests + 1, ui.busy)
    /\ UNCHANGED <<dialog, scenario, fs, mw>>

NextMerge ==
    \/ M_Start
    \/ M_Scan
    \/ M_Walk
    \/ M_ScanEnd
    \/ M_Write
    \/ M_Final
    \/ M_Finally

Init == InitSplit \/ InitParse \/ InitSplitFatal \/ InitMergeScan \/ InitRoundTrip

Next == NextSplit \/ NextMerge \/ StartSplit \/ Cancel \/ operation_finished

Spec == Init /\ [][Next]_vars

(***************************************************************************)
(* The window's start requests (ui_main_window.py)                         *)
(*                                                                         *)
(* A window with a selection to merge and an artifact to split; the user   *)
(* asks for merges and splits at any time, MaxRequests times in all.       *)
(***************************************************************************)
MaxRequests == 3

CALLER_OUTPUT_FILE == "/w/merged.txt"

CallerSelections ==
    {<<Item("folder", "/r", "/r")>>, <<Item("file", "/r/zz", "/r")>>}

\* The artifacts of the window: one closed block, a tree section with an
\* open block, and a block with no path, from which nothing is extracted.
CallerArtifacts ==
    {[format |-> "Default",
      artifact |-> craft("Default", FALSE, <<[path |-> "a", content |-> "h\n"]>>, TRUE)],
     [format |-> "Markdown",
      artifact |-> craft("Markdown", TRUE, <<[path |-> "d/b", content |-> "h\n"]>>, FALSE)],
     [format |-> "Default",
      artifact |-> craft("Default", FALSE, <<[path |-> "", content |-> "h\n"]>>, TRUE)]}

InitCaller ==
    \E items \in CallerSelections, chosen \in CallerArtifacts, include_tree \in BOOLEAN :
        /\ dialog = [open |-> FALSE]
        /\ scenario = [kind |-> "caller", format |-> chosen.format, items |-> items,
                       sources |-> ScanSources, artifact |-> chosen.artifact,
                       env |-> Env(CALLER_OUTPUT_FILE, include_tree, FALSE, {}, {}),
                       unstatable |-> {}, unreadable |-> {}]
        /\ worker = "none"
        /\ pc = "idle"
        /\ is_running = FALSE
        /\ observed = FALSE
        /\ signals = <<>>
        /\ fs = open_write(MergeFs(ScanSources), MERGED_FILE, chosen.artifact)
        /\ mw = NoMerger
        /\ sw = SplitterWorker(MERGED_FILE, OUTPUT_DIR, chosen.format)
        /\ ui = IdleWindow

\* start_merge (lines 1137-1226): with items, an output file and a format
\* (the model's window always has them; the directory of the output file is
\* there), a request made while the worker thread runs is turned down at
\* line 1167; otherwise a MergerWorker is made on a new thread.
start_merge ==
    /\ scenario.kind = "caller"
    /\ ui.requests < MaxRequests
    /\ IF thread_is_running(ui)
       THEN /\ ui' = [ui EXCEPT !.requests = @ + 1, !.busy = @ + 1]
            /\ UNCHANGED <<worker, pc, is_running, observed, signals, mw, sw>>
       ELSE /\ ui' = Window("running", ui.active + 1, ui.requests + 1, ui.busy)
            /\ worker' = "merger"
            /\ pc' = "m_start"
            /\ is_running' = TRUE
            /\ observed' = FALSE
            /\ signals' = <<>>
            /\ mw' = MergerWorker(scenario.items, scenario.env.output_file,
                                  scenario.format, scenario.env.include_tree)
            /\ UNCHANGED sw
    /\ UNCHANGED <<dialog, scenario, fs>>

\* start_split (lines 1228-1290): with an input file that is there, an
\* output directory and a format, a request made while the worker thread
\* runs is turned down at line 1248; otherwise a SplitterWorker is made on a
\* new thread.  Without the input file the request is turned down at line
\* 1230.
start_split ==
    /\ scenario.kind = "caller"
    /\ ui.requests < MaxRequests
    /\ IF ~is_file(fs, MERGED_FILE)
       THEN /\ ui' = [ui EXCEPT !.requests = @ + 1]
            /\ UNCHANGED <<worker, pc, is_running, observed, signals, mw, sw>>
       ELSE IF thread_is_running(ui)
       THEN /\ ui' = [ui EXCEPT !.requests = @ + 1, !.busy = @ + 1]
            /\ UNCHANGED <<worker, pc, is_running, observed, signals, mw, sw>>
       ELSE /\ ui' = Window("running", ui.active + 1, ui.requests + 1, ui.busy)
            /\ worker' = "splitter"
            /\ pc' = "start"
            /\ is_running' = TRUE
            /\ observed' = FALSE
            /\ signals' = <<>>
            /\ sw' = SplitterWorker(MERGED_FILE, OUTPUT_DIR, scenario.format)
            /\ UNCHANGED mw
    /\ UNCHANGED <<dialog, scenario, fs>>

NextCaller ==
    \/ start_merge
    \/ start_split
    \/ Cancel
    \/ operation_finished
    \/ NextMerge
    \/ NextSplit

SpecCaller == InitCaller /\ [][NextCaller]_vars

(***************************************************************************)
(* Properties                                                              *)
(***************************************************************************)
Emitted(e) == \E k \in 1..Len(signals) : signals[k] = e

\* The finished signals of the run, in order.
Finishes == SelectSeq(signals, LAMBDA e : e.sig = "finished")

CancelledMessages == {MERGE_CANCELLED_SCAN, MERGE_CANCELLED, SPLIT_CANCELLED}

Below(dir, path) == IsPrefix(dir, path)

\* The error signals of the run, in order.
Errors == SelectSeq(signals, LAMBDA e : e.sig = "error")

\* A split that ran to its end: never cancelled, and with no fatal error.
SplitCompleted == worker = "splitter" /\ pc = "done" /\ is_running /\ Errors = <<>>

\* The file system a split of a hand-made artifact started in.
SplitFs0 == ShapeFs(scenario, scenario.artifact)

\* The files the file system holds now that filesys0 did not hold, or held
\* with another content.
WrittenSince(filesys0) ==
    {q \in DOMAIN fs.files :
        q \notin DOMAIN filesys0.files \/ fs.files[q] # filesys0.files[q]}

\* C1 -- Round trip: a folder of text files merged in a format and the
\* artifact split again in that format into the empty directory gives one
\* file for each source, at the source's relative path, with the source's
\* content and at most one line feed more (only after content that is not
\* empty and does not end in one).
C1_RoundTrip ==
    (scenario.kind = "roundtrip" /\ SplitCompleted) =>
        /\ {q \in DOMAIN fs.files : Below(OUTPUT_DIR, q)}
               = {OUTPUT_DIR \o relative_to(src, <<"r">>) : src \in DOMAIN scenario.sources}
        /\ \A src \in DOMAIN scenario.sources :
              LET original == scenario.sources[src]
                  out == OUTPUT_DIR \o relative_to(src, <<"r">>)
              IN  /\ is_file(fs, out)
                  /\ \/ fs.files[out] = original
                     \/ /\ fs.files[out] = original \o "\n"
                        /\ original # ""
                        /\ ~EndsWith(original, "\n")

\* The round trip of plain names does reproduce the sources.
C1_PlainRoundTrip ==
    /\ scenario.kind = "roundtrip" /\ SplitCompleted
    /\ DOMAIN scenario.sources = {<<"r", "a">>, <<"r", "d", "b">>}
    /\ scenario.sources[<<"r", "a">>] = "h"
    /\ fs.files[OUTPUT_DIR \o <<"a">>] = "h\n"
    /\ fs.files[OUTPUT_DIR \o <<"d", "b">>] = scenario.sources[<<"r", "d", "b">>]

\* A captured path _write_file takes: not empty, not absolute, not empty
\* once cleaned, and with its target in the output directory, which is
\* there.
ValidPath(path) ==
    /\ is_dir(fs, OUTPUT_DIR)
    /\ path # ""
    /\ ~is_absolute(path)
    /\ clean_relative_path(path) # ""
    /\ Below(OUTPUT_DIR, target_path_of(OUTPUT_DIR, path))

\* C2 -- Containment: in a split, every file written and every directory
\* made is the output directory or below it, whatever path a block captures;
\* and in a split that ran to its end every valid block that follows a
\* rejected block is extracted.
C2_Containment ==
    /\ (scenario.kind = "split") =>
           /\ \A q \in WrittenSince(SplitFs0) : Below(OUTPUT_DIR, q)
           /\ \A d \in fs.dirs \ SplitFs0.dirs : Below(OUTPUT_DIR, d)
    /\ (scenario.kind = "roundtrip" /\ worker = "splitter") =>
           /\ \A q \in DOMAIN fs.files :
                 \/ Below(OUTPUT_DIR, q)
                 \/ q = MERGED_FILE
                 \/ q \in DOMAIN scenario.sources /\ fs.files[q] = scenario.sources[q]
           /\ \A d \in fs.dirs \ MergeFs(scenario.sources).dirs : Below(OUTPUT_DIR, d)
    /\ (scenario.kind = "split" /\ SplitCompleted) =>
           \A k \in 2..Len(scenario.blocks) :
              (/\ \E j \in 1..(k - 1) : ~ValidPath(scenario.blocks[j].path)
               /\ ValidPath(scenario.blocks[k].path))
              => LET target == target_path_of(OUTPUT_DIR, scenario.blocks[k].path)
                 IN  /\ is_file(fs, target)
                     /\ (\A j \in (k + 1)..Len(scenario.blocks) :
                            target_path_of(OUTPUT_DIR, scenario.blocks[j].path) # target)
                        => fs.files[target] = scenario.blocks[k].content

\* A block whose path leaves the output directory was rejected and the valid
\* block after it extracted.
C2_RejectedThenExtracted ==
    /\ scenario.kind = "split" /\ SplitCompleted
    /\ Len(scenario.blocks) = 2
    /\ scenario.blocks[1].path = "a\\..\\..\\x"
    /\ scenario.blocks[2].path = "d/b"
    /\ Emitted(Log("Error: Security risk! outside output directory"))
    /\ ~is_file(fs, <<"w", "x">>)
    /\ is_file(fs, OUTPUT_DIR \o <<"d", "b">>)
    /\ sw.file_count = 1

\* The block the splitter has open captures a path that, joined to the
\* output directory as it was captured, resolves outside it.
OpenBlockEscapesAsCaptured ==
    /\ worker = "splitter" /\ sw.in_file_block
    /\ ~Below(resolve(sw.output_dir),
              resolve(joinpath(sw.output_dir, sw.current_file_path_relative)))

\* The block the splitter has open captures a path whose cleaned form,
\* joined to the output directory, resolves outside it.
OpenBlockEscapesCleaned ==
    /\ worker = "splitter" /\ sw.in_file_block
    /\ ~Below(resolve(sw.output_dir),
              target_path_of(sw.output_dir, sw.current_file_path_relative))

\* A step that writes no file, makes no directory and leaves the counter.
NothingWritten ==
    /\ sw'.file_count = sw.file_count
    /\ fs'.dirs = fs.dirs
    /\ \A q \in DOMAIN fs'.files : q \in DOMAIN fs.files /\ fs'.files[q] = fs.files[q]

\* C3 as stated -- a block whose captured path, joined to the output
\* directory, resolves outside it is discarded: _write_file returns false,
\* no file and no directory is made, the counter stays.
C3_AsStated ==
    [][OpenBlockEscapesAsCaptured =>
          /\ ~WriteFile(fs, sw.output_dir, sw.current_file_path_relative,
                        Concat(sw.current_file_content_lines)).ok
          /\ NothingWritten]_vars

\* C3 -- Security rejection: a block whose captured path, once cleaned
\* (backslashes to slashes, leading and trailing '.', '/' and ' ' stripped)
\* and joined to the output directory, resolves outside it is discarded:
\* _write_file returns false, no file and no directory is made anywhere, and
\* the counter stays.
C3_SecurityRejection ==
    [][OpenBlockEscapesCleaned =>
          /\ ~WriteFile(fs, sw.output_dir, sw.current_file_path_relative,
                        Concat(sw.current_file_content_lines)).ok
          /\ NothingWritten]_vars

\* A split of one block with parent steps in the middle of its path ended
\* with the block rejected and nothing made.
C3_BlockDiscarded ==
    /\ scenario.kind = "split" /\ SplitCompleted
    /\ Len(scenario.blocks) = 1
    /\ scenario.blocks[1].path = "a\\..\\..\\x"
    /\ Emitted(Log("Error: Security risk! outside output directory"))
    /\ sw.file_count = 0
    /\ fs = SplitFs0

\* C4 -- a run that has ended has emitted exactly one finished signal,
\* wherever the caller's Cancel fell.
C4_ExactlyOneFinished == (pc = "done") => Len(Finishes) = 1

\* C5 -- Cancellation observed: once the worker has seen the flag cleared at
\* a polling point, no finished signal of the run reports success, and the
\* run ends with one finished signal that reports failure with a cancelled
\* message.
C5_CancelObserved ==
    observed =>
        /\ \A k \in 1..Len(Finishes) : ~Finishes[k].success
        /\ (pc = "done") =>
               /\ Len(Finishes) = 1
               /\ Finishes[1].message \in CancelledMessages

\* A split that had written a file saw the flag cleared and ended cancelled.
C5_CancelledAfterWriting ==
    /\ worker = "splitter" /\ pc = "done" /\ observed
    /\ sw.file_count > 0
    /\ Finishes = <<Finished(FALSE, SPLIT_CANCELLED)>>

\* A merge that has emitted its finished signal.
MergeEnded == worker = "merger" /\ pc \in {"m_finally", "done"}

MergeCancelled ==
    MergeEnded /\ \E k \in 1..Len(Finishes) : Finishes[k].message \in CancelledMessages

C7_SplitCancelCleanup ==
    (/\ scenario.kind = "split"
     /\ worker = "splitter" /\ pc \in {"finally", "done"}
     /\ Emitted(Finished(FALSE, SPLIT_CANCELLED))
     /\ ~Emitted(Log(WARN_NOT_REMOVED)))
    => WrittenSince(SplitFs0) = {}

\* The step that meets the end of the input inside a block, the split not
\* cancelled.
EndOfInputInBlock ==
    /\ worker = "splitter" /\ pc = "after_loop" /\ is_running
    /\ sw.in_file_block /\ sw.current_file_path_relative # ""
    /\ pc' = "post"

C9_FormatSymmetry ==
    (worker = "merger") =>
        \A k \in 1..Len(mw.files_to_process) :
            LET p == as_posix(mw.files_to_process[k].relative_path)
                start_match == start_regex_match(mw.format,
                                                 Strip(start_delimiter(mw.format, p)))
            IN  /\ start_match.matched
                /\ get_end_delimiter(mw.format, Strip(start_match.group1))
                       = Strip(end_delimiter(mw.format, p))

\* An entry of the selection reaches a source file: it names the file, or
\* a folder above it.
Reaches(item, file_path) ==
    LET item_path == resolve(PathParts(item.item_path_str))
    IN  IF item.item_type = "file" THEN item_path = file_path
        ELSE item_path # file_path /\ IsPrefix(item_path, file_path)

\* The relative path an entry gives a file it reaches.
RelativeFrom(item, file_path) ==
    LET item_path == resolve(PathParts(item.item_path_str))
        base_path == IF item.base_path_str = "" THEN parent(item_path)
                     ELSE resolve(PathParts(item.base_path_str))
    IN  IF IsPrefix(base_path, file_path)
        THEN SubSeq(file_path, Len(base_path) + 1, Len(file_path))
        ELSE IF item.item_type = "file" THEN <<file_path[Len(file_path)]>>
        ELSE SubSeq(file_path, Len(item_path) + 1, Len(file_path))

\* C10 -- Deduplication: the list of discovered files has no two records
\* with one resolved path; each record has the relative path given by the
\* first entry of the selection that reaches its file; and after a scan
\* that was not cancelled every file an entry reaches has its record.
C10_Deduplication ==
    (worker = "merger") =>
        LET records == mw.files_discovered_in_scan
            items == mw.items_to_merge
        IN  /\ \A a, b \in 1..Len(records) :
                  a # b => records[a].absolute_path # records[b].absolute_path
            /\ \A a \in 1..Len(records) :
                  LET reaching == {k \in 1..Len(items) :
                                      Reaches(items[k], records[a].absolute_path)}
                  IN  /\ reaching # {}
                      /\ records[a].relative_path
                             = RelativeFrom(items[CHOOSE k \in reaching :
                                                     \A j \in reaching : k <= j],
                                            records[a].absolute_path)
            /\ (pc \in {"m_write", "m_final"}) =>
                  \A src \in DOMAIN scenario.sources :
                      (\E k \in 1..Len(items) : Reaches(items[k], src))
                      => \E a \in 1..Len(records) : records[a].absolute_path = src

\* A file named by one entry and found again below the folder of the next
\* was recorded once, with the relative path of the first entry.
C10_ReachedTwice ==
    /\ worker = "merger" /\ pc = "done"
    /\ mw.items_to_merge = <<Item("file", "/r/d/b", ""), Item("folder", "/r", "/r")>>
    /\ Len(mw.files_to_process) = 3
    /\ \E k \in 1..3 :
          /\ mw.files_to_process[k].absolute_path = <<"r", "d", "b">>
          /\ mw.files_to_process[k].relative_path = <<"b">>

\* The keys of a list of records do not descend anywhere, compared by code
\* point.
Ascending(records) ==
    \A k \in 1..(Len(records) - 1) :
        ~StrLess(sort_key(records[k + 1]), sort_key(records[k]))

\* What the output file holds when the first n records are written: the tree
\* section if asked for, then the blocks of the records in the order of the
\* list, the separator between them.
RECURSIVE BlocksInOrder(_, _, _)
BlocksInOrder(w, filesys, n) ==
    IF n = 0
    THEN (IF w.include_tree
          THEN generate_hierarchy_tree_string(w.files_to_process)
               \o MERGE_FORMATS[w.format].file_separator
          ELSE "")
    ELSE BlocksInOrder(w, filesys, n - 1)
         \o file_block(w.format, as_posix(w.files_to_process[n].relative_path),
                       read_content(filesys, scenario.unreadable,
                                    w.files_to_process[n].absolute_path))
         \o (IF n < Len(w.files_to_process)
             THEN MERGE_FORMATS[w.format].file_separator ELSE "")

\* C11 -- Sort order: whatever the order of the selection's entries and of
\* the walk, the list handed to the writer holds the records of the scan in
\* ascending order of the POSIX form of their relative paths, compared by
\* code point (case-sensitively), and the output file holds the blocks in the
\* order of that list.
C11_SortOrder ==
    (worker = "merger" /\ pc \in {"m_write", "m_final"}) =>
        /\ Ascending(mw.files_to_process)
        /\ Len(mw.files_to_process) = Len(mw.files_discovered_in_scan)
        /\ \A k \in 1..Len(mw.files_discovered_in_scan) :
               \E j \in 1..Len(mw.files_to_process) :
                   mw.files_to_process[j] = mw.files_discovered_in_scan[k]
        /\ fs.files[output_file_path(mw)] = BlocksInOrder(mw, fs, mw.i - 1)

\* A merge wrote three files that the scan had found in another order, the
\* upper-case name sorted before the lower-case one.
C11_SortedOutOfOrder ==
    /\ worker = "merger" /\ pc = "m_final" /\ is_running
    /\ Len(mw.files_to_process) = 3
    /\ mw.i = 4
    /\ [k \in 1..3 |-> sort_key(mw.files_discovered_in_scan[k])] = <<"d/b", "d/C", "a">>
    /\ [k \in 1..3 |-> sort_key(mw.files_to_process[k])] = <<"a", "d/C", "d/b">>

\* The artifact with its tree section removed: when the first line is the
\* start sentinel, the lines after the first later line that is the end
\* sentinel (nothing when there is none); otherwise the whole artifact.
TreeRemoved(bytes) ==
    LET lines == SplitLines(bytes)
        ends == {k \in 2..Len(lines) : Strip(lines[k]) = TREE_END_DELIMITER}
    IN  IF lines = <<>> \/ Strip(lines[1]) # TREE_START_DELIMITER THEN bytes
        ELSE IF ends = {} THEN ""
        ELSE Concat(SubSeq(lines, (CHOOSE k \in ends : \A j \in ends : k <= j) + 1,
                           Len(lines)))

\* The lines of a worker parsed one after the other from w.idx on.
RECURSIVE ParseAll(_, _)
ParseAll(w, filesys) ==
    IF w.idx > Len(w.lines) THEN [sw |-> w, fs |-> filesys]
    ELSE LET r == parse_line(w, filesys, w.lines[w.idx])
         IN  ParseAll(r.sw, r.fs)

\* What a split of the text bytes that starts at its first line and is not
\* cancelled makes of the file system filesys0, and the files it counts.
ExtractedFrom(bytes, f, filesys0) ==
    LET parsed == ParseAll([SplitterWorker(MERGED_FILE, OUTPUT_DIR, f)
                               EXCEPT !.lines = SplitLines(bytes)], filesys0)
        ended == IF parsed.sw.in_file_block /\ parsed.sw.current_file_path_relative # ""
                 THEN flush_block(parsed.sw, parsed.fs, FALSE)
                 ELSE [sw |-> parsed.sw, fs |-> parsed.fs]
    IN  [fs |-> ended.fs, file_count |-> ended.sw.file_count]

\* The file system the split of the run started in.
SplitStartFs ==
    IF scenario.kind = "split" THEN SplitFs0
    ELSE IF scenario.kind = "parse" THEN ParseFs(scenario.artifact)
    ELSE open_write(MergeFs(scenario.sources), MERGED_FILE, fs.files[MERGED_FILE])

\* C12 -- Tree header independence: in every format, a split that ran to its
\* end has made of the file system, and counted, what parsing the artifact
\* with its tree section removed (every line up to and including the end
\* sentinel, when the first line is the start sentinel) makes of it from the
\* first remaining line on; an artifact whose first line is not the start
\* sentinel is parsed from its first line.
C12_TreeIndependence ==
    (SplitCompleted /\ is_file(fs, sw.merged_file)) =>
        LET extracted == ExtractedFrom(TreeRemoved(fs.files[sw.merged_file]),
                                       sw.format, SplitStartFs)
        IN  /\ fs = extracted.fs
            /\ sw.file_count = extracted.file_count

\* A split skipped the tree section of a hand-made artifact and extracted
\* the two blocks after it.
C12_TreeSkipped ==
    /\ scenario.kind = "split" /\ SplitCompleted
    /\ scenario.tree
    /\ Emitted(Log("Found tree end."))
    /\ sw.file_count = 2
    /\ is_file(fs, OUTPUT_DIR \o <<"a">>)
    /\ is_file(fs, OUTPUT_DIR \o <<"d", "b">>)

\* The worker is about to hand a block to _write_file (the end line of the
\* block is the next line, or the input has ended inside the block) and the
\* output directory is not there.
FlushWithoutOutputDir ==
    /\ worker = "splitter" /\ is_running
    /\ ~is_dir(fs, sw.output_dir)
    /\ sw.in_file_block
    /\ clean_relative_path(sw.current_file_path_relative) # ""
    /\ \/ /\ pc = "lines"
          /\ ~sw.just_started_block
          /\ Strip(sw.lines[sw.idx])
                 = get_end_delimiter(sw.format, sw.current_file_path_relative)
          /\ sw'.idx = sw.idx + 1
       \/ /\ pc = "after_loop"
          /\ pc' = "post"

\* C13 -- Missing output directory is fatal: a flush that finds the output
\* directory missing emits an error signal and ends the processing of
\* blocks (the flag is cleared, or the loop over the lines is left).
C13_MissingOutputDirFatal ==
    [][FlushWithoutOutputDir =>
          /\ \E k \in (Len(signals) + 1)..Len(signals') : signals'[k].sig = "error"
          /\ ~is_running' \/ pc' # "lines"]_vars

\* The run emitted one error signal and one finished signal, the error
\* first, and the finished signal reports failure.
OneErrorThenFailure ==
    /\ Len(Errors) = 1
    /\ Len(Finishes) = 1
    /\ ~Finishes[1].success
    /\ \E j, k \in 1..Len(signals) :
           j < k /\ signals[j].sig = "error" /\ signals[k].sig = "finished"

\* C14 -- Fatal conditions: a split whose artifact is not there, or whose
\* descriptor lacks its name, its start pattern or its end-delimiter
\* function, ends with one error signal followed by one finished signal
\* that reports failure, and with no file written; a merge that cannot make
\* the directory of its output ends the same way, with no output file
\* written.
C14_FatalConditions ==
    /\ (scenario.kind = "fatal" /\ pc \in {"done", "raised"}) =>
           /\ OneErrorThenFailure
           /\ fs = FatalFs(scenario.input_there)
    /\ (scenario.kind = "merge" /\ pc = "done"
         /\ mw.files_to_process # <<>>
         /\ mkdir_fails(fs, parent(output_file_path(mw)))) =>
           /\ OneErrorThenFailure
           /\ fs = MergeFs(scenario.sources)

\* C15 -- The terminal event is last: no progress signal and no log signal
\* of a run comes after the run's finished signal.
C15_TerminalLast ==
    \A k \in 1..Len(signals) :
        signals[k].sig = "finished" =>
            \A j \in (k + 1)..Len(signals) : signals[j].sig \notin {"progress", "log"}

\* The values of the progress signals of the run, in order.
ProgressValues ==
    LET emitted == SelectSeq(signals, LAMBDA e : e.sig = "progress")
    IN  [k \in 1..Len(emitted) |-> emitted[k].value]

\* C16 -- Progress is bounded and monotone: within a run every progress
\* value is an integer from 0 to 100 and no value is less than the one
\* before it, for artifacts with and without a tree section and for
\* sources whose recorded size is 0.
C16_ProgressMonotone ==
    /\ \A k \in 1..Len(ProgressValues) : ProgressValues[k] \in 0..100
    /\ \A k \in 1..(Len(ProgressValues) - 1) : ProgressValues[k] <= ProgressValues[k + 1]

\* A split of an artifact with a tree section reported a value strictly
\* between 0 and 100 after the tree and rose to 100; the sizes are counted
\* in bytes.
C16_ProgressRose ==
    /\ scenario.kind = "split" /\ SplitCompleted
    /\ scenario.tree
    /\ sw.total_size > 0
    /\ \E j, k \in 1..Len(ProgressValues) :
           /\ j < k
           /\ ProgressValues[j] > 0
           /\ ProgressValues[j] < ProgressValues[k]
           /\ ProgressValues[k] < 100
    /\ ProgressValues[Len(ProgressValues)] = 100

\* A step of start_merge or start_split.
StartRequest == ui'.requests = ui.requests + 1

\* C17 -- At most one operation at a time: whatever start requests, cancels
\* and finished signals have come, the window holds at most one worker that
\* is not released; and a start request made while the worker thread runs
\* makes no worker and leaves the running worker, its flag and what it has
\* emitted as they are.
C17_OneOperation ==
    /\ [](ui.active <= 1)
    /\ [][(StartRequest /\ ui.worker_thread = "running") =>
             /\ ui'.active = ui.active
             /\ ui'.worker_thread = "running"
             /\ UNCHANGED <<worker, pc, is_running, observed, signals, fs, mw, sw>>]_vars

\* A request was turned down while a merge was writing, and a split was
\* started after the merge had been released.
C17_RejectedThenStarted ==
    /\ scenario.kind = "caller"
    /\ ui = Window("running", 1, 3, 1)
    /\ worker = "splitter" /\ pc = "lines"
    /\ is_file(fs, PathParts(CALLER_OUTPUT_FILE))

\* A step of the scan taken with the flag set: one entry of the selection or
\* one step of a walk.
ScanStep == worker = "merger" /\ pc \in {"m_scan", "m_walk"} /\ is_running

\* The entries of the selection that name a file or a folder that is there
\* by a path that resolves.
ValidEntry(item) ==
    /\ ~resolve_raises(item.item_path_str) /\ ~resolve_raises(item.base_path_str)
    /\ \E src \in DOMAIN scenario.sources : Reaches(item, src)

\* C18 -- Per-item errors are absorbed during discovery: an entry that is
\* missing, whose path does not resolve or whose file cannot be stat-ed
\* never ends the scan: each step of the scan emits nothing but log events,
\* leaves the file system alone and goes on with the scan; and once the
\* writing phase is over without a cancellation, every file reached by a
\* valid entry has its block in the output file.
C18_ErrorsAbsorbed ==
    /\ [][ScanStep =>
             /\ pc' \in {"m_scan", "m_walk", "m_scan_end"}
             /\ Len(signals') >= Len(signals)
             /\ \A k \in (Len(signals) + 1)..Len(signals') : signals'[k].sig = "log"
             /\ fs' = fs]_vars
    /\ []((worker = "merger" /\ scenario.kind = "merge" /\ pc = "done"
            /\ is_running /\ Errors = <<>>) =>
              \A k \in 1..Len(mw.items_to_merge), src \in DOMAIN scenario.sources :
                  (ValidEntry(mw.items_to_merge[k]) /\ Reaches(mw.items_to_merge[k], src))
                  => \E a \in 1..Len(mw.files_to_process) :
                        /\ mw.files_to_process[a].absolute_path = src
                        /\ is_file(fs, output_file_path(mw))
                        /\ Contains(fs.files[output_file_path(mw)],
                                    FormatFilepath(MERGE_FORMATS[mw.format].start,
                                                   as_posix(mw.files_to_process[a].relative_path))
                                    \o "\n"))

\* The part that steps to the parent directory.
PARENT_STEP == ".."

\* C19 -- Relative-path invariant: every record of the scan has a relative
\* path with at least one part, none of them a parent step, that is the tail
\* of the file's resolved path (so it is not absolute), whether it was made
\* relative to the entry's base, to the parent or the scanned folder, or is
\* the bare file name.
C19_RelativePathInvariant ==
    (worker = "merger") =>
        \A a \in 1..Len(mw.files_discovered_in_scan) :
            LET record == mw.files_discovered_in_scan[a]
                n == Len(record.relative_path)
                m == Len(record.absolute_path)
            IN  /\ n >= 1
                /\ \A k \in 1..n : record.relative_path[k] \notin {PARENT_STEP, ""}
                /\ n <= m
                /\ record.relative_path = SubSeq(record.absolute_path, m - n + 1, m)

\* The file system a merge was started in.
MergeFs0 ==
    IF scenario.env.preexisting
    THEN open_write(MergeFs(scenario.sources), PathParts(scenario.env.output_file), "old\n")
    ELSE MergeFs(scenario.sources)

\* The step that leaves the scan: the check of line 308 and what follows.
LeavesScan == worker = "merger" /\ pc = "m_scan_end" /\ pc' # "m_scan_end"

\* C20 -- Empty versus cancelled scan: the step that leaves a scan with the
\* flag cleared ends the run with finished(False, 'Merge cancelled during
\* scan.'); with the flag set and no file discovered it ends the run with
\* finished(False, 'No files to merge.'); the two messages differ, no error
\* is emitted, and in both cases the file system, the output path with it,
\* is what it was when the merge was started.
C20_EmptyVersusCancelled ==
    [][(LeavesScan /\ scenario.kind = "merge") =>
          LET cancelled == Finished(FALSE, "Merge cancelled during scan.")
              empty == Finished(FALSE, "No files to merge.")
              last == signals'[Len(signals')]
          IN  /\ ~is_running =>
                    /\ last = cancelled /\ pc' = "m_finally"
                    /\ fs' = MergeFs0 /\ Finishes' = <<cancelled>> /\ Errors' = <<>>
              /\ (is_running /\ mw.files_discovered_in_scan = <<>>) =>
                    /\ last = empty /\ pc' = "m_finally"
                    /\ fs' = MergeFs0 /\ Finishes' = <<empty>> /\ Errors' = <<>>
              /\ (is_running /\ mw.files_discovered_in_scan # <<>>) =>
                    /\ empty \notin {signals'[k] : k \in 1..Len(signals')}
                    /\ cancelled \notin {signals'[k] : k \in 1..Len(signals')}]_vars

\* A merge of one entry that is not there ended with 'No files to merge.'
\* and the output file that was there before is there as it was.
C20_EmptyScanKeptOutput ==
    /\ worker = "merger" /\ pc = "done" /\ scenario.kind = "merge"
    /\ Len(mw.items_to_merge) = 1
    /\ Finishes = <<Finished(FALSE, "No files to merge.")>>
    /\ scenario.env.preexisting
    /\ fs = MergeFs0
    /\ fs.files[output_file_path(mw)] = "old\n"

\* A turn of the writing loop that writes the block of a file.
WritesBlock == worker = "merger" /\ pc = "m_write" /\ is_running /\ mw'.i = mw.i + 1

\* floor(100 * a / b), capped at 100.
FloorPercent(a, b) == Min((100 * a) \div b, 100)

\* C21 -- Merge progress basis: the progress emitted after a file block is
\* floor(100 * recorded bytes so far / total recorded bytes) when the total
\* is above 0 and floor(100 * files written / number of files) otherwise,
\* capped at 100; and the last progress before the finished signal of a
\* merge that succeeded is 100.
C21_ProgressBasis ==
    /\ [][WritesBlock =>
             signals'[Len(signals')] =
                 Progress(IF mw.total_size > 0
                          THEN FloorPercent(mw'.processed_size, mw.total_size)
                          ELSE FloorPercent(mw'.processed_files_count,
                                            Len(mw.files_to_process)))]_vars
    /\ [](\A k \in 1..Len(signals) :
             (worker = "merger" /\ signals[k] = Finished(TRUE, MERGE_SUCCESSFUL)) =>
                 \E j \in 1..(k - 1) :
                     /\ signals[j] = Progress(100)
                     /\ \A i \in (j + 1)..(k - 1) : signals[i].sig # "progress")

\* The files that a step gives a content they did not have.
NewContent ==
    {p \in DOMAIN fs'.files : p \notin DOMAIN fs.files \/ fs'.files[p] # fs.files[p]}

\* The first line of the content of a block whose start line is w.lines[s].
ContentFrom(w, s) ==
    s + 1 + (IF MERGE_FORMATS[w.format].skip_line_after_start THEN 1 ELSE 0)

\* The lines of w from ContentFrom(w, s) to b are what lies in the open
\* block of w: line s is a start line with the block's path, not empty and
\* not absolute, and none of the lines is the end line of the block.
OpenBlockRun(w, s, b) ==
    LET a == ContentFrom(w, s)
        start_match == start_regex_match(w.format, Strip(w.lines[s]))
    IN  /\ start_match.matched
        /\ Strip(start_match.group1) = w.current_file_path_relative
        /\ w.current_file_path_relative # ""
        /\ ~is_absolute(w.current_file_path_relative)
        /\ \A k \in a..b :
              Strip(w.lines[k]) # get_end_delimiter(w.format, w.current_file_path_relative)

\* C22 -- Content purity: a step of the split gives a file a new content
\* only when the line at hand is the end line of the open block or the
\* input has ended inside a block, and the content is then the lines of the
\* artifact, joined as they are, from the line after the block's start line
\* (after the skipped line too, when the format skips one) up to the line
\* before the end line or the end of the input; and the lines parsed are
\* the artifact without its tree section.
C22_ContentPurity ==
    /\ [][(worker = "splitter" /\ worker' = "splitter" /\ NewContent # {}) =>
             /\ sw.in_file_block
             /\ \/ /\ pc = "lines"
                   /\ Strip(sw.lines[sw.idx])
                          = get_end_delimiter(sw.format, sw.current_file_path_relative)
                \/ /\ pc = "after_loop" /\ sw.idx = Len(sw.lines) + 1
             /\ \E s \in 1..(sw.idx - 1) :
                   /\ OpenBlockRun(sw, s, sw.idx - 1)
                   /\ \A p \in NewContent :
                         fs'.files[p] = Concat(SubSeq(sw.lines, ContentFrom(sw, s),
                                                     sw.idx - 1))]_vars
    /\ []((worker = "splitter" /\ pc \in {"lines", "after_loop"}
            /\ is_file(fs, sw.merged_file)) =>
              Concat(sw.lines) = TreeRemoved(fs.files[sw.merged_file]))

\* A split of a Markdown artifact with a tree section saved the one line of
\* its block: the tree, the start line and the skipped fence are not in it.
C22_BlockOfOneLine ==
    /\ worker = "splitter" /\ pc = "done" /\ scenario.kind = "split"
    /\ sw.format = "Markdown" /\ scenario.tree
    /\ Len(sw.lines) > 3
    /\ is_file(fs, OUTPUT_DIR \o <<"a">>)
    /\ fs.files[OUTPUT_DIR \o <<"a">>] = "h\n"

\* A turn of the loop over the lines that parses a line inside a block.
LineInBlock ==
    /\ worker = "splitter" /\ worker' = "splitter"
    /\ pc = "lines" /\ is_running /\ sw.in_file_block
    /\ sw'.idx = sw.idx + 1

\* The line at hand matches the start pattern and is not the end line of
\* the open block.
StartLineInBlock ==
    /\ LineInBlock
    /\ start_regex_match(sw.format, Strip(sw.lines[sw.idx])).matched
    /\ Strip(sw.lines[sw.idx])
           # get_end_delimiter(sw.format, sw.current_file_path_relative)

\* C23 as stated -- a start line met inside a block is appended to the
\* content of the open block.
C23_AsStated ==
    [][StartLineInBlock =>
          /\ sw'.in_file_block
          /\ sw'.current_file_path_relative = sw.current_file_path_relative
          /\ sw'.current_file_content_lines
                 = Append(sw.current_file_content_lines, sw.lines[sw.idx])]_vars

\* C23 -- No nested block start: a start line met inside a block that is
\* not the end line of the open block begins no block and writes nothing:
\* the parser stays in the block with its path, and the line is appended to
\* the content as it is, unless it is the line skipped after the start
\* line, which is dropped.  The parser leaves the block only on a line whose
\* trimmed text is the end line of the block and that is not the skipped
\* line; at the end of the input the block is still open.
C23_NoNestedStart ==
    /\ [][StartLineInBlock =>
             /\ sw'.in_file_block
             /\ sw'.current_file_path_relative = sw.current_file_path_relative
             /\ sw'.file_count = sw.file_count /\ fs' = fs
             /\ sw'.current_file_content_lines
                    = IF sw.just_started_block THEN sw.current_file_content_lines
                      ELSE Append(sw.current_file_content_lines, sw.lines[sw.idx])]_vars
    /\ [][(worker = "splitter" /\ worker' = "splitter"
            /\ sw.in_file_block /\ ~sw'.in_file_block) =>
             /\ LineInBlock /\ ~sw.just_started_block
             /\ Strip(sw.lines[sw.idx])
                    = get_end_delimiter(sw.format, sw.current_file_path_relative)]_vars

\* The block a of a fenced artifact was saved with the start line of b and
\* the padded line in it, and the block b that follows the stray line too.
C23_StartLineKept ==
    /\ scenario.kind = "parse" /\ SplitCompleted
    /\ sw.format = "Markdown_Fenced"
    /\ is_file(fs, OUTPUT_DIR \o <<"a">>) /\ is_file(fs, OUTPUT_DIR \o <<"b">>)
    /\ fs.files[OUTPUT_DIR \o <<"a">>]
           = "h\n" \o start_delimiter("Markdown_Fenced", "b") \o "\n" \o " k \n"
    /\ fs.files[OUTPUT_DIR \o <<"b">>] = "j\n"

\* A turn of the loop over the lines that parses a line outside a block.
LineOutsideBlock ==
    /\ worker = "splitter" /\ worker' = "splitter"
    /\ pc = "lines" /\ is_running /\ ~sw.in_file_block
    /\ sw'.idx = sw.idx + 1

\* C24 -- Start-line rejection: outside a block, a start line whose
\* captured path is empty after trimming or begins at the root leaves the
\* parser outside a block, with the collected lines and the current path as
\* they were, and writes nothing; any other captured path, one with a parent
\* step in it included, opens a block for that path with no line collected
\* yet.
C24_StartLineRejection ==
    [][LineOutsideBlock =>
          LET m == start_regex_match(sw.format, Strip(sw.lines[sw.idx]))
              captured == Strip(m.group1)
          IN  m.matched =>
                  /\ fs' = fs /\ sw'.file_count = sw.file_count
                  /\ sw'.created_file_paths = sw.created_file_paths
                  /\ IF captured = "" \/ StartsWith(captured, "/")
                     THEN /\ ~sw'.in_file_block
                          /\ sw'.current_file_path_relative
                                 = sw.current_file_path_relative
                          /\ sw'.current_file_content_lines
                                 = sw.current_file_content_lines
                     ELSE /\ sw'.in_file_block
                          /\ sw'.current_file_path_relative = captured
                          /\ sw'.current_file_content_lines = <<>>]_vars

\* The start lines with an empty and with an absolute path were passed
\* over, and the parser is inside the block of the path ../q.
C24_TraversalEntered ==
    /\ scenario.kind = "parse" /\ worker = "splitter" /\ pc = "lines"
    /\ sw.in_file_block /\ sw.current_file_path_relative = "../q"
    /\ Emitted(Log("Warning: Empty filepath captured by start regex. Skipping block."))
    /\ Emitted(Log("Error: Security risk! Absolute path found in delimiter. Skipping block."))
    /\ Emitted(Log("Warning: Potential path traversal detected in delimiter. Final check during write."))
    /\ sw.file_count = 0

\* C25 -- Skip-line scoping: the skip flag is raised only by the step that
\* accepts a start line, and only in a format with skip_line_after_start
\* (where every accepted start line raises it); the line read while the flag
\* is up is dropped whatever it is -- it is not collected, it closes no
\* block even when it is the end line, nothing is written -- and the flag is
\* down after it; a line read in a block with the flag down is collected
\* or is the end line; and in every state a raised flag means an open block.
C25_SkipLineScoping ==
    /\ [][(worker = "splitter" /\ worker' = "splitter"
            /\ ~sw.just_started_block /\ sw'.just_started_block) =>
             /\ LineOutsideBlock /\ sw'.in_file_block
             /\ start_regex_match(sw.format, Strip(sw.lines[sw.idx])).matched
             /\ MERGE_FORMATS[sw.format].skip_line_after_start]_vars
    /\ [][(LineOutsideBlock /\ sw'.in_file_block) =>
             (sw'.just_started_block
                  <=> MERGE_FORMATS[sw.format].skip_line_after_start)]_vars
    /\ [][(LineInBlock /\ sw.just_started_block) =>
             /\ ~sw'.just_started_block /\ sw'.in_file_block
             /\ sw'.current_file_path_relative = sw.current_file_path_relative
             /\ sw'.current_file_content_lines = sw.current_file_content_lines
             /\ sw'.file_count = sw.file_count /\ fs' = fs]_vars
    /\ [][(LineInBlock /\ ~sw.just_started_block) =>
             /\ ~sw'.just_started_block
             /\ \/ sw'.current_file_content_lines
                       = Append(sw.current_file_content_lines, sw.lines[sw.idx])
                \/ /\ ~sw'.in_file_block
                   /\ Strip(sw.lines[sw.idx])
                          = get_end_delimiter(sw.format,
                                              sw.current_file_path_relative)]_vars
    /\ [](worker = "splitter" /\ sw.just_started_block => sw.in_file_block)

\* A block whose skipped line is its own end line was saved with the one
\* line that follows it, and the input ended on a start line with the flag
\* still up.
C25_SkippedEndLine ==
    /\ scenario.kind = "parse" /\ SplitCompleted
    /\ sw.format = "Markdown"
    /\ MERGE_FORMATS["Markdown"].content_prefix
           = get_end_delimiter("Markdown", "b") \o "\n"
    /\ is_file(fs, OUTPUT_DIR \o <<"b">>)
    /\ fs.files[OUTPUT_DIR \o <<"b">>] = "j\n"
    /\ sw.just_started_block /\ sw.in_file_block
    /\ sw.current_file_path_relative = "a"

\* The line at hand is the end line of the open block.
EndLineInBlock ==
    /\ LineInBlock
    /\ Strip(sw.lines[sw.idx])
           = get_end_delimiter(sw.format, sw.current_file_path_relative)

\* The error lines logged by the step.
ErrorLogsOfStep ==
    {k \in (Len(signals) + 1)..Len(signals') :
        signals'[k].sig = "log" /\ StartsWith(signals'[k].message, "Error")}

\* The step made one write of the collected lines: either the file of the
\* block now holds them, no other file changed, the counter rose by one and
\* no error was logged, or no file changed, the counter stayed and one error
\* was logged.  Either way the parser is outside a block, with nothing
\* collected and no current path.
BlockCompleted ==
    LET content_to_write == Concat(sw.current_file_content_lines)
        target == target_path_of(sw.output_dir, sw.current_file_path_relative)
    IN  /\ ~sw'.in_file_block /\ ~sw'.just_started_block
        /\ sw'.current_file_content_lines = <<>>
        /\ sw'.current_file_path_relative = ""
        /\ \/ /\ sw'.file_count = sw.file_count + 1
              /\ ErrorLogsOfStep = {}
              /\ DOMAIN fs'.files = DOMAIN fs.files \cup {target}
              /\ fs'.files[target] = content_to_write
              /\ \A q \in DOMAIN fs.files : q # target => fs'.files[q] = fs.files[q]
           \/ /\ sw'.file_count = sw.file_count
              /\ Cardinality(ErrorLogsOfStep) = 1
              /\ fs'.files = fs.files

\* C26 as stated -- every line in a block whose trimmed text is the end
\* line of the block completes the block.
C26_AsStated ==
    [][EndLineInBlock => BlockCompleted]_vars

\* C26 -- Block completion: a line in a block that is not the line skipped
\* after the start line and whose trimmed text is the end line of the block
\* makes exactly one write of the collected lines; the counter rises by one
\* exactly when the write succeeded; and the parser is outside a block
\* afterwards, with nothing collected and no current path, whether the
\* write succeeded or not.
C26_BlockCompletion ==
    [][(EndLineInBlock /\ ~sw.just_started_block) => BlockCompleted]_vars

\* Of three completed blocks two writes failed and one succeeded: one file
\* counted, the parser outside a block.
C26_OneOfThreeWritten ==
    /\ scenario.kind = "parse" /\ SplitCompleted
    /\ Len(sw.lines) > 0 /\ sw.idx > Len(sw.lines)
    /\ ~sw.in_file_block /\ sw.current_file_content_lines = <<>>
    /\ sw.file_count = 1
    /\ is_file(fs, OUTPUT_DIR \o <<"a">>) /\ fs.files[OUTPUT_DIR \o <<"a">>] = "h\n"
    /\ fs.files[OUTPUT_DIR \o <<"f">>] = "old\n"
    /\ Cardinality({k \in 1..Len(signals) :
                       signals[k] = Log("Error writing file (OS Error)")}) = 2

WRITE_OS_ERROR == Log("Error writing file (OS Error)")

\* A turn of the loop over the lines in which _write_file met an OS error.
WriteFailedInLoop ==
    /\ worker = "splitter" /\ worker' = "splitter"
    /\ pc = "lines" /\ is_running /\ is_running'
    /\ \E k \in (Len(signals) + 1)..Len(signals') : signals'[k] = WRITE_OS_ERROR

\* The target of the open block can be written: the path is valid, no
\* ancestor of the target is a regular file and the target is no directory.
OpenBlockWritable ==
    LET target == target_path_of(sw.output_dir, sw.current_file_path_relative)
    IN  /\ ValidPath(sw.current_file_path_relative)
        /\ \A a \in Ancestors(target) : ~is_file(fs, a) \/ a = target
        /\ ~is_dir(fs, target)

\* C27 -- A failed write is not fatal: the turn of the loop in which making
\* the parent directories or opening the file of a block failed counts no
\* file, changes no file, emits neither an error nor a finished signal,
\* leaves the worker running and goes on to the next line (or past the last
\* one), outside a block; and after such a failure every block that reaches
\* its end line with a target that can be written is written and counted.
C27_FailedWriteNotFatal ==
    /\ [][WriteFailedInLoop =>
             /\ sw'.file_count = sw.file_count
             /\ sw'.created_file_paths = sw.created_file_paths
             /\ fs'.files = fs.files
             /\ \A k \in (Len(signals) + 1)..Len(signals') :
                    signals'[k].sig \notin {"error", "finished"}
             /\ ~sw'.in_file_block
             /\ sw'.idx = sw.idx + 1
             /\ pc' = IF sw.idx < Len(sw.lines) THEN "lines" ELSE "after_loop"]_vars
    /\ [][(EndLineInBlock /\ ~sw.just_started_block
            /\ Emitted(WRITE_OS_ERROR) /\ OpenBlockWritable) =>
             LET target == target_path_of(sw.output_dir,
                                          sw.current_file_path_relative)
             IN  /\ sw'.file_count = sw.file_count + 1
                 /\ is_file(fs', target)
                 /\ fs'.files[target] = Concat(sw.current_file_content_lines)]_vars

\* The writes of the blocks f/x (f is a regular file) and dd (a directory)
\* failed, the block a after them was extracted, and the run ended with
\* success.
C27_ExtractedAfterFailures ==
    /\ scenario.kind = "parse" /\ worker = "splitter" /\ pc = "done"
    /\ Errors = <<>>
    /\ Len(signals) > 2
    /\ signals[Len(signals)].sig = "finished" /\ signals[Len(signals)].success
    /\ \E i, j \in 1..Len(signals) : i < j /\ signals[i] = WRITE_OS_ERROR
                                         /\ signals[j] = WRITE_OS_ERROR
    /\ is_dir(fs, OUTPUT_DIR \o <<"dd">>) /\ ~is_file(fs, OUTPUT_DIR \o <<"f", "x">>)
    /\ is_file(fs, OUTPUT_DIR \o <<"a">>)
    /\ sw.file_count = 1

\* The artifact of the run begins with the tree start sentinel and holds no
\* end sentinel.
TruncatedTree ==
    /\ worker = "splitter" /\ is_file(fs, sw.merged_file)
    /\ LET lines == SplitLines(fs.files[sw.merged_file])
       IN  /\ lines # <<>>
           /\ Strip(lines[1]) = TREE_START_DELIMITER
           /\ \A k \in 2..Len(lines) : Strip(lines[k]) # TREE_END_DELIMITER

TREE_TRUNCATED_WARNING == Log("Warning: Reached end of file while skipping tree.")

\* C28 -- Truncated tree header: in a split of an artifact whose first line
\* is the tree start sentinel and that holds no end sentinel, once the
\* tree-skip loop has met the end of the input and logged its warning, the
\* main phase has no line to parse, no file is written or counted, and the
\* run, when it has ended, has emitted a finished signal, each one without
\* success.
C28_TruncatedTree ==
    (TruncatedTree /\ Emitted(TREE_TRUNCATED_WARNING)) =>
        /\ sw.lines = <<>> /\ sw.file_count = 0
        /\ fs.files = SplitStartFs.files
        /\ (pc = "done") =>
               /\ Finishes # <<>>
               /\ \A k \in 1..Len(Finishes) : ~Finishes[k].success

\* A merge that ended with success.
MergeSucceeded ==
    /\ worker = "merger" /\ pc \in {"m_finally", "done"}
    /\ Emitted(Finished(TRUE, MERGE_SUCCESSFUL))

\* The block of the k-th record as the claim lays it out: the start line,
\* the content prefix, the content as the merger read it (closed by a line
\* feed when it has none), the content suffix and the end line.
LaidOutBlock(k) ==
    LET record == mw.files_to_process[k]
        relative_path_str == as_posix(record.relative_path)
        file_content == read_content(fs, scenario.unreadable, record.absolute_path)
    IN  FormatFilepath(MERGE_FORMATS[mw.format].start, relative_path_str) \o "\n"
        \o MERGE_FORMATS[mw.format].content_prefix
        \o file_content
        \o (IF file_content = "" \/ EndsWith(file_content, "\n") THEN "" ELSE "\n")
        \o MERGE_FORMATS[mw.format].content_suffix
        \o FormatFilepath(MERGE_FORMATS[mw.format].end, relative_path_str) \o "\n"

\* C29 -- Artifact layout: the artifact of a merge that ended with success
\* is, when the tree is included, the tree render and one file separator,
\* and then, for the records in ascending order of their paths, the block of
\* each record -- start line, content prefix, content, content suffix, end
\* line -- with one file separator between two blocks and none after the
\* last.
C29_ArtifactLayout ==
    MergeSucceeded =>
        /\ mw.files_to_process # <<>>
        /\ Ascending(mw.files_to_process)
        /\ fs.files[output_file_path(mw)]
               = (IF mw.include_tree
                  THEN generate_hierarchy_tree_string(mw.files_to_process)
                       \o MERGE_FORMATS[mw.format].file_separator
                  ELSE "")
                 \o JoinWith([k \in 1..Len(mw.files_to_process) |-> LaidOutBlock(k)],
                             MERGE_FORMATS[mw.format].file_separator)

\* A merge with the tree wrote two blocks in format Markdown: the separator
\* stands between the end line of the first and the start line of the
\* second, and the artifact ends with the end line of the second.
C29_TreeAndTwoBlocks ==
    /\ MergeSucceeded /\ mw.include_tree /\ mw.format = "Markdown"
    /\ Len(mw.files_to_process) = 2
    /\ EndsWith(fs.files[output_file_path(mw)],
                MERGE_FORMATS["Markdown"].end \o "\n")
    /\ ~EndsWith(fs.files[output_file_path(mw)],
                 "\n" \o MERGE_FORMATS["Markdown"].file_separator)
    /\ Contains(fs.files[output_file_path(mw)],
                MERGE_FORMATS["Markdown"].end \o "\n"
                \o MERGE_FORMATS["Markdown"].file_separator \o "File: ")

\* A turn of the loop over the records that writes a block.
WritesOneBlock ==
    /\ worker = "merger" /\ worker' = "merger"
    /\ pc = "m_write" /\ mw'.i = mw.i + 1

\* C30 -- End delimiter on its own line: in every format and for every
\* content, the text a turn of the loop adds to the artifact is the start
\* line, the content prefix and the content, then one line feed when the
\* content is not empty and does not end in a line feed and nothing
\* otherwise, then the content suffix and the end line (and the separator
\* unless the block is the last); and the character before the end
\* delimiter is a line feed.
C30_EndDelimiterOwnLine ==
    [][WritesOneBlock =>
          LET before == fs.files[output_file_path(mw)]
              after == fs'.files[output_file_path(mw)]
              added == SubSeq(after, Len(before) + 1, Len(after))
              record == mw.files_to_process[mw.i]
              relative_path_str == as_posix(record.relative_path)
              file_content == read_content(fs, scenario.unreadable, record.absolute_path)
              opening == FormatFilepath(MERGE_FORMATS[mw.format].start, relative_path_str)
                         \o "\n" \o MERGE_FORMATS[mw.format].content_prefix
                         \o file_content
              end_line == FormatFilepath(MERGE_FORMATS[mw.format].end, relative_path_str)
                          \o "\n"
              closing == MERGE_FORMATS[mw.format].content_suffix \o end_line
                         \o (IF mw.i < Len(mw.files_to_process)
                             THEN MERGE_FORMATS[mw.format].file_separator ELSE "")
              inserted == SubSeq(added, Len(opening) + 1, Len(added) - Len(closing))
              end_at == Len(added) - Len(closing)
                        + Len(MERGE_FORMATS[mw.format].content_suffix) + 1
          IN  /\ StartsWith(after, before)
              /\ Len(added) >= Len(opening) + Len(closing)
              /\ StartsWith(added, opening) /\ EndsWith(added, closing)
              /\ inserted = (IF file_content # "" /\ ~EndsWith(file_content, "\n")
                             THEN "\n" ELSE "")
              /\ SubSeq(added, end_at - 1, end_at - 1) = "\n"]_vars

\* In format Default a merge wrote the blocks of an empty content, of the
\* content h and of the content h with a line feed: the end line follows
\* the start line at once in the first, and h and one line feed in the two
\* others.
C30_ThreeContents ==
    /\ MergeSucceeded /\ mw.format = "Default"
    /\ scenario.sources = EndingsSources
    /\ fs.files[output_file_path(mw)]
           = "--- START FILE: a ---\n--- END FILE: a ---\n\n\n"
             \o "--- START FILE: b ---\nh\n--- END FILE: b ---\n\n\n"
             \o "--- START FILE: c ---\nh\n--- END FILE: c ---\n"

\* The record cannot be read: its file is gone or may not be opened.
Unreadable(record) ==
    \/ ~is_file(fs, record.absolute_path)
    \/ record.absolute_path \in scenario.unreadable

\* The block of a record with the content given.
BlockWith(record, content) ==
    FormatFilepath(MERGE_FORMATS[mw.format].start, as_posix(record.relative_path))
    \o "\n" \o MERGE_FORMATS[mw.format].content_prefix
    \o content
    \o MERGE_FORMATS[mw.format].content_suffix
    \o FormatFilepath(MERGE_FORMATS[mw.format].end, as_posix(record.relative_path))
    \o "\n"

\* C31 -- Unreadable file does not abort the merge: the turn of the loop
\* that meets a file it cannot read adds the block of the file with the
\* error text, closed by a line feed, between its start and end lines, logs
\* the error, emits neither an error nor a finished signal and goes on to
\* the next record; and a merge that wrote all its records and was not
\* cancelled ends with success, its artifact holding the block of every
\* readable record with the content of the file.
C31_UnreadableFileMerged ==
    /\ [][(WritesOneBlock /\ Unreadable(mw.files_to_process[mw.i])) =>
             LET before == fs.files[output_file_path(mw)]
                 after == fs'.files[output_file_path(mw)]
                 last == mw.i = Len(mw.files_to_process)
             IN  /\ after = before
                            \o BlockWith(mw.files_to_process[mw.i], ERROR_READING \o "\n")
                            \o (IF last THEN ""
                                ELSE MERGE_FORMATS[mw.format].file_separator)
                 /\ \A k \in (Len(signals) + 1)..Len(signals') :
                        signals'[k].sig \notin {"error", "finished"}
                 /\ \E k \in (Len(signals) + 1)..Len(signals') :
                        signals'[k] = Log("Error reading file. Inserting error message.")
                 /\ is_running' /\ pc' = (IF last THEN "m_final" ELSE "m_write")]_vars
    /\ []((/\ MergeEnded
            /\ mw.files_to_process # <<>> /\ mw.i > Len(mw.files_to_process)
            /\ \A k \in 1..Len(Finishes) :
                   Finishes[k].message \notin CancelledMessages) =>
             /\ Finishes = <<Finished(TRUE, MERGE_SUCCESSFUL)>>
             /\ Errors = <<>>
             /\ \A k \in 1..Len(mw.files_to_process) :
                    LET record == mw.files_to_process[k]
                    IN  ~Unreadable(record) =>
                            Contains(fs.files[output_file_path(mw)],
                                     BlockWith(record,
                                               fs.files[record.absolute_path]
                                               \o (IF fs.files[record.absolute_path] = ""
                                                      \/ EndsWith(fs.files[record.absolute_path], "\n")
                                                   THEN "" ELSE "\n"))))

\* A merge of three files, one of which could not be read, ended
\* with success: the artifact holds the error text in the block of d/b
\* and the contents of the two other files.
C31_PlaceholderWritten ==
    /\ MergeSucceeded /\ Len(mw.files_to_process) = 3
    /\ scenario.unreadable = {<<"r", "d", "b">>}
    /\ Emitted(Log("Error reading file. Inserting error message."))
    /\ Contains(fs.files[output_file_path(mw)],
                "--- START FILE: a ---\naa\n--- END FILE: a ---\n")
    /\ Contains(fs.files[output_file_path(mw)],
                "--- START FILE: d/b ---\n" \o ERROR_READING \o "\n--- END FILE: d/b ---\n")
    /\ Contains(fs.files[output_file_path(mw)],
                "--- START FILE: d/C ---\n--- END FILE: d/C ---\n")

\* The lines of a rendered tree between its two sentinels.
RenderedLines(tree) ==
    LET all == SplitOn(tree, "\n")
    IN  IF tree = "" THEN <<>> ELSE SubSeq(all, 2, Len(all) - 2)

\* The depth of a line of the tree: the number of indents before its branch.
LineDepth(line) ==
    LET at == {d \in 0..(Len(line) \div 4) :
                  /\ 4 * d + 4 <= Len(line)
                  /\ SubSeq(line, 4 * d + 1, 4 * d + 4) \in {T_BRANCH, L_BRANCH}}
    IN  IF at = {} THEN 0 ELSE CHOOSE d \in at : \A e \in at : d <= e

\* The name a line shows, with the "/" of a directory line.
LineName(line) == SubSeq(line, 4 * LineDepth(line) + 5, Len(line))

IsDirectoryLine(line) == EndsWith(LineName(line), "/")

\* The path a line stands for: the names of the directory lines it is
\* nested under, each the nearest line above it that is one level higher,
\* and its own name.
RECURSIVE LinePath(_, _)
LinePath(lines, k) ==
    LET line == lines[k]
        name == IF IsDirectoryLine(line)
                THEN SubSeq(LineName(line), 1, Len(LineName(line)) - 1)
                ELSE LineName(line)
        above == {j \in 1..(k - 1) : LineDepth(lines[j]) = LineDepth(line) - 1}
    IN  IF LineDepth(line) = 0 \/ above = {} THEN <<name>>
        ELSE LinePath(lines, CHOOSE j \in above : \A i \in above : i <= j) \o <<name>>

\* The rendered tree of the list shows every relative path once as a file
\* line below one directory line for each of its directories, and shows no
\* relative path as a directory.
TreeCovers(files_to_process) ==
    LET lines == RenderedLines(generate_hierarchy_tree_string(files_to_process))
        paths == {files_to_process[k].relative_path : k \in 1..Len(files_to_process)}
                     \ {<<>>}
    IN  /\ \A path \in paths :
               /\ Cardinality({k \in 1..Len(lines) :
                                  /\ ~IsDirectoryLine(lines[k])
                                  /\ LineDepth(lines[k]) = Len(path) - 1
                                  /\ LinePath(lines, k) = path}) = 1
               /\ \A d \in 1..(Len(path) - 1) :
                      Cardinality({k \in 1..Len(lines) :
                                      /\ IsDirectoryLine(lines[k])
                                      /\ LineDepth(lines[k]) = d - 1
                                      /\ LinePath(lines, k) = SubSeq(path, 1, d)}) = 1
        /\ \A k \in 1..Len(lines) :
               IsDirectoryLine(lines[k]) => LinePath(lines, k) \notin paths

\* C32 -- Tree coverage: the tree rendered for the list of a merge shows
\* each distinct relative path of the list as exactly one file line (its
\* last part, with no "/") nested under one directory line (with "/") for
\* each of its directories, and shows no file as a directory; the tree of
\* an empty list is the empty text.
C32_TreeCoverage ==
    /\ generate_hierarchy_tree_string(<<>>) = ""
    /\ (worker = "merger" /\ pc \in {"m_write", "m_final"} /\ mw.include_tree) =>
           /\ TreeCovers(mw.files_to_process)
           /\ StartsWith(fs.files[output_file_path(mw)],
                         generate_hierarchy_tree_string(mw.files_to_process))

RemovedByStep == DOMAIN fs.files \ DOMAIN fs'.files

\* C34 -- Cleanup deletes only what the split wrote: every file a step of
\* a split removes is in the output directory or below it and was written
\* by this split: it was not there when the split began, or it holds
\* another content than it held then.
C34_CleanupOnlyOwn ==
    [][(worker = "splitter" /\ worker' = "splitter") =>
          \A q \in RemovedByStep :
              /\ Below(OUTPUT_DIR, q)
              /\ \/ q \notin DOMAIN SplitStartFs.files
                 \/ fs.files[q] # SplitStartFs.files[q]]_vars

\* A split that reached its end with the flag never cleared, no error
\* signal and a complete format descriptor.
SplitRanThrough == SplitCompleted /\ sw.lacks = ""

\* C35 -- Split success criterion: a split that was not cancelled and met
\* no fatal error emits one finished signal, with success exactly when its
\* counter of written files is above zero, which is exactly when it has
\* written a file; so an artifact with no block, or with rejected blocks
\* only, ends without success.
C35_SuccessCriterion ==
    SplitRanThrough =>
        /\ Len(Finishes) = 1
        /\ Finishes[1].success <=> sw.file_count > 0
        /\ sw.file_count > 0 <=> WrittenSince(SplitStartFs) # {}

\* A split of two blocks, one with the empty path and one with an absolute
\* path, wrote nothing and ended without success.
C35_AllRejected ==
    /\ scenario.kind = "split" /\ SplitRanThrough
    /\ Len(scenario.blocks) = 2
    /\ scenario.blocks[1].path = "" /\ scenario.blocks[2].path = "/etc/passwd"
    /\ sw.file_count = 0 /\ fs = SplitStartFs
    /\ Finishes = <<Finished(FALSE, SPLIT_NO_BLOCKS)>>

(***************************************************************************)
(* FolderSelectionDialog (src/dialogs.py)                                  *)
(***************************************************************************)
\* self.folder_path, resolved.
FOLDER_PATH == <<"p", "r">>

\* str(path) of an absolute path given by its parts.
path_str(parts) == "/" \o JoinWith(parts, "/")

\* The folders the dialog is opened on: the directories and the regular
\* files below folder_path.  The first has files three levels down, the
\* second is flat below one folder, the third has two branches.
PickerFolders ==
    LET r == FOLDER_PATH
    IN  { [dirs |-> {r \o <<"d">>, r \o <<"d", "e">>},
           files |-> {r \o <<"a">>, r \o <<"d", "b">>,
                      r \o <<"d", "e", "f">>, r \o <<"d", "e", "g">>}],
          [dirs |-> {r \o <<"d">>},
           files |-> {r \o <<"a">>, r \o <<"d", "b">>, r \o <<"d", "c">>}],
          [dirs |-> {r \o <<"d">>, r \o <<"d", "e">>, r \o <<"h">>},
           files |-> {r \o <<"d", "e", "f">>, r \o <<"h", "k">>}] }

\* item.data(TYPE_DATA_ROLE)
item_type(folder, item) == IF item \in folder.dirs THEN "folder" ELSE "file"

\* _populate_recursive: the rows of a node, folders first, then files, each
\* by name.lower(); iterdir gives the names in some order.  The parent of an
\* item is the item of the parent path, the invisible root that of
\* folder_path.
rows(folder, parent_item) ==
    LET RECURSIVE iterdir_names(_)
        iterdir_names(paths) ==
            IF paths = {} THEN <<>>
            ELSE LET q == CHOOSE q \in paths : TRUE
                 IN  <<q[Len(q)]>> \o iterdir_names(paths \ {q})
        under(paths) == {q \in paths : parent(q) = parent_item}
        names == sorted_lower(iterdir_names(under(folder.dirs)))
                     \o sorted_lower(iterdir_names(under(folder.files)))
    IN  [i \in 1..Len(names) |-> parent_item \o <<names[i]>>]

\* _set_child_check_state_recursive: every row of the parent takes the
\* state.  The model's signals are blocked while it runs, so the handler is
\* not entered for a child and the rows of a child folder stay as they are.
set_child_check_state_recursive(check, folder, parent_item, state) ==
    IF state = "PartiallyChecked" THEN check
    ELSE [item \in DOMAIN check |->
             IF parent(item) = parent_item THEN state ELSE check[item]]

\* _update_parent_check_state: the parent takes the state its rows give it;
\* an item of the top level has no parent.  With the signals blocked the
\* handler is not entered for the parent, so its own parent stays as it is.
update_parent_check_state(check, folder, item) ==
    LET parent_node == parent(item)
        children == rows(folder, parent_node)
        total_checkable_children == Len(children)
        checked_children ==
            Cardinality({i \in DOMAIN children : check[children[i]] = "Checked"})
        partially_checked_children ==
            Cardinality({i \in DOMAIN children :
                            check[children[i]] = "PartiallyChecked"})
        new_parent_state ==
            IF partially_checked_children > 0 THEN "PartiallyChecked"
            ELSE IF checked_children = total_checkable_children
                    /\ total_checkable_children > 0 THEN "Checked"
            ELSE IF checked_children > 0 THEN "PartiallyChecked"
            ELSE "Unchecked"
    IN  IF parent_node = FOLDER_PATH THEN check
        ELSE [check EXCEPT ![parent_node] = new_parent_state]

\* on_item_changed: down to the rows of a folder that is not partially
\* checked, then up to the parent.
on_item_changed(check, folder, item) ==
    LET current_check_state == check[item]
        down == IF item_type(folder, item) = "folder"
                   /\ current_check_state # "PartiallyChecked"
                THEN set_child_check_state_recursive(check, folder, item,
                                                     current_check_state)
                ELSE check
    IN  update_parent_check_state(down, folder, item)

\* _collect_selected_items_recursive over the rows of a node: a checked item
\* is listed as it is, a partially checked folder is entered, an unchecked
\* item is passed over with all below it.
RECURSIVE collect_selected_items_recursive(_, _, _, _)
collect_selected_items_recursive(check, folder, children, base_path_str) ==
    IF children = <<>> THEN <<>>
    ELSE LET item == Head(children)
             state == check[item]
         IN  (IF state = "Checked"
              THEN <<Item(item_type(folder, item), path_str(item), base_path_str)>>
              ELSE IF state = "PartiallyChecked" /\ item_type(folder, item) = "folder"
              THEN collect_selected_items_recursive(check, folder,
                                                    rows(folder, item), base_path_str)
              ELSE <<>>)
             \o collect_selected_items_recursive(check, folder, Tail(children),
                                                 base_path_str)

\* __init__ and populate_tree: every item Checked, nothing selected yet.
InitPicker ==
    /\ \E folder \in PickerFolders :
           dialog = [open |-> TRUE, folder |-> folder,
                     check |-> [item \in folder.dirs \cup folder.files |-> "Checked"],
                     selected_items_for_worker |-> <<>>]
    /\ scenario = [kind |-> "picker"]
    /\ worker = "none" /\ pc = "idle" /\ is_running = FALSE /\ observed = FALSE
    /\ signals = <<>>
    /\ fs = [files |-> <<>>, dirs |-> {}]
    /\ mw = <<>> /\ sw = <<>> /\ ui = <<>>

\* The user clicks the check box of an item: the view stores the next state
\* (a folder, which carries ItemIsUserTristate, steps through Unchecked,
\* PartiallyChecked, Checked; a file is toggled) and the model's itemChanged
\* enters on_item_changed.
ItemClicked ==
    /\ dialog.open
    /\ \E item \in DOMAIN dialog.check :
           LET old == dialog.check[item]
               state == IF item_type(dialog.folder, item) = "folder"
                        THEN CASE old = "Unchecked" -> "PartiallyChecked"
                               [] old = "PartiallyChecked" -> "Checked"
                               [] OTHER -> "Unchecked"
                        ELSE IF old = "Checked" THEN "Unchecked" ELSE "Checked"
           IN  dialog' = [dialog EXCEPT !.check =
                             on_item_changed([dialog.check EXCEPT ![item] = state],
                                             dialog.folder, item)]
    /\ UNCHANGED <<scenario, worker, pc, is_running, observed, signals, fs, mw, sw, ui>>

\* accept: OK collects the selection from the invisible root, with
\* str(self.folder_path.parent.resolve()) as the base, and closes.
accept ==
    /\ dialog.open
    /\ dialog' = [dialog EXCEPT
                     !.selected_items_for_worker =
                         collect_selected_items_recursive(
                             dialog.check, dialog.folder,
                             rows(dialog.folder, FOLDER_PATH),
                             path_str(parent(FOLDER_PATH))),
                     !.open = FALSE]
    /\ UNCHANGED <<scenario, worker, pc, is_running, observed, signals, fs, mw, sw, ui>>

NextPicker == ItemClicked \/ accept

SpecPicker == InitPicker /\ [][NextPicker]_vars

\* The items below a folder item, at any depth.
ItemsBelow(item) ==
    {q \in DOMAIN dialog.check :
        Len(q) > Len(item) /\ SubSeq(q, 1, Len(item)) = item}

\* C36 -- Tri-state consistency in the folder picker: after any clicks, a
\* folder item with items below it is Checked exactly when all of them are
\* Checked and Unchecked exactly when none of them is Checked (and so
\* PartiallyChecked otherwise).
C36_TriStateConsistency ==
    scenario.kind = "picker" =>
        \A item \in dialog.folder.dirs :
            LET below == ItemsBelow(item)
                checked == {q \in below : dialog.check[q] = "Checked"}
            IN  below # {} =>
                    /\ dialog.check[item] = "Checked" <=> checked = below
                    /\ dialog.check[item] = "Unchecked" <=> checked = {}

\* An entry of the selection covers a file: it lists the file, or it lists
\* a folder the file lies under.
Covers(entry, file) ==
    \/ entry.item_type = "file" /\ entry.item_path_str = path_str(file)
    \/ entry.item_type = "folder"
         /\ StartsWith(path_str(file), entry.item_path_str \o "/")

\* C37 -- Picker selection matches the check boxes: once OK has collected
\* the selection, a file is covered by an entry exactly when its own item
\* is Checked, and no file is covered by two entries.
C37_SelectionMatchesChecks ==
    (scenario.kind = "picker" /\ ~dialog.open) =>
        \A file \in dialog.folder.files :
            LET covering == {i \in DOMAIN dialog.selected_items_for_worker :
                                Covers(dialog.selected_items_for_worker[i], file)}
            IN  /\ covering # {} <=> dialog.check[file] = "Checked"
                /\ Cardinality(covering) <= 1

====
